---- MODULE Spec2Model ----
(***************************************************************************)
(* TCP-Sim: a discrete-event simulation of TCP Reno / Cubic flows over one *)
(* bottleneck link (src/core, src/loss, src/tcp).                          *)
(*                                                                         *)
(* Simulated time is counted in ticks of 1/TicksPerSec seconds.  The       *)
(* simpy event heap is the sequence evq, kept ordered by (time, priority,  *)
(* creation order); one action processes the event at its head, running    *)
(* the whole resumed handler up to its next yield.                         *)
(* Reno windows are Python ints (packets).  Cubic windows are Python       *)
(* floats, carried here in fixed point: 1/WScale packet, and the cubic     *)
(* time in 1/CubicTimeScale second.                                        *)
(***************************************************************************)
EXTENDS Integers, Sequences, FiniteSets, TLC

\* ------------------------------------------------------------------
\* Units and program constants
\* ------------------------------------------------------------------
TicksPerSec == 10000
WScale == 1000
CubicTimeScale == 100
PacingTicks == TicksPerSec \div 1000
PacketSize == 1500
InitSsthresh == 64
CubicC == [num |-> 4, den |-> 10]
CubicBeta == [num |-> 7, den |-> 10]

\* ------------------------------------------------------------------
\* Bounds of the explored configurations
\* ------------------------------------------------------------------
MaxPackets == 8
MaxDrops == 2
SmallUntil == 400
MaxBurstQueue == 3

\* ------------------------------------------------------------------
\* Small helpers
\* ------------------------------------------------------------------
Max(a, b) == IF a >= b THEN a ELSE b
Min(a, b) == IF a <= b THEN a ELSE b
SetMin(S) == CHOOSE x \in S : \A y \in S : x <= y
Abs(a) == IF a < 0 THEN -a ELSE a

URGENT == 0
NORMAL == 1

\* A Packet: seq, size_bytes, flow.  enq and idle remember when the link
\* admitted this copy and whether the link was then idle with an empty queue;
\* adm is the rank of that admission among all admissions to the queue.
NoPkt == [flow |-> 0, seq |-> -1, size |-> 0, enq |-> -1, idle |-> FALSE,
          adm |-> 0]
Pkt(f, s, sz) == [flow |-> f, seq |-> s, size |-> sz, enq |-> -1,
                  idle |-> FALSE, adm |-> 0]

VARIABLES
    cfg,        \* the configuration the run was constructed with
    now,        \* env.now, in ticks
    evq,        \* env._queue: the pending events, in firing order
    queue,      \* link.queue.items
    getWaiting, \* the link's pending queue.get(), when the queue was empty
    linkBusy,   \* the packet Link.run holds during tx_time + prop_delay
    lossState,  \* BurstyLoss.state
    drops,      \* loss-module drops drawn so far (bounds the random draws)
    flow,       \* per flow: the RenoFlow / CubicFlow / DummyFlow object
    sink,       \* names recorded with logger.record_event, per flow
    last,       \* what the last processed event did
    hist        \* counts over the run: admission attempts, admissions,
                \* deliveries, and the time of the latest delivery

vars == <<cfg, now, evq, queue, getWaiting, linkBusy, lossState, drops, flow,
          sink, last, hist>>

\* ------------------------------------------------------------------
\* simpy.Environment: schedule / step
\* ------------------------------------------------------------------
Ev(t, p, k, f, pkt, val) ==
    [time |-> t, prio |-> p, kind |-> k, f |-> f, pkt |-> pkt, val |-> val]

\* heappush with key (time, priority, eid): the new event has the largest
\* eid, so it goes after every queued event of the same time and priority.
ScheduleLifo(q, e) ==
    LET before == {i \in 1..Len(q) : q[i].time < e.time}
        n == Cardinality(before)
    IN  SubSeq(q, 1, n) \o <<e>> \o SubSeq(q, n + 1, Len(q))
Schedule(q, e) ==
    LET before == {i \in 1..Len(q) :
                      \/ q[i].time < e.time
                      \/ (q[i].time = e.time /\ q[i].prio <= e.prio)}
        n == Cardinality(before)
    IN  SubSeq(q, 1, n) \o <<e>> \o SubSeq(q, n + 1, Len(q))

RECURSIVE ScheduleAll(_, _)
ScheduleAll(q, es) ==
    IF es = <<>> THEN q ELSE ScheduleAll(Schedule(q, Head(es)), Tail(es))

\* env.run(until): the stop event is URGENT at time until, so only events
\* strictly before until are processed.
CanStep == evq /= <<>> /\ Head(evq).time < cfg.until
Finished == ~CanStep

\* ------------------------------------------------------------------
\* Loss modules
\* ------------------------------------------------------------------
Prob(n, d) == [num |-> n, den |-> d]

\* The outcomes random.random() < p can have, random() being in [0, 1).
\* Draws with 0 < p < 1 may come out true at most MaxDrops times in a run.
ChanceFlipped(p, budget) ==
    {b \in BOOLEAN : /\ b => (p.num < p.den /\ budget > 0)
                     /\ ~b => p.num > 0}
Chance(p, budget) ==
    {b \in BOOLEAN : /\ b => (p.num > 0 /\ (p.num >= p.den \/ budget > 0))
                     /\ ~b => p.num < p.den}

NoLoss == [type |-> "none", drop_prob |-> Prob(0, 1),
           p_good |-> Prob(0, 1), p_bad |-> Prob(0, 1),
           avg_good_duration |-> 1, avg_bad_duration |-> 1]
RandomLoss(p) == [NoLoss EXCEPT !.type = "random", !.drop_prob = p]
BurstyLoss(pg, pb, ag, ab) ==
    [NoLoss EXCEPT !.type = "bursty", !.p_good = pg, !.p_bad = pb,
                   !.avg_good_duration = ag, !.avg_bad_duration = ab]
DummyLossModule == [NoLoss EXCEPT !.type = "dummy"]

\* BurstyLoss.update_state: the states it can move to.
update_state(lm, st) ==
    IF st = "GOOD"
    THEN {IF b THEN "BAD" ELSE "GOOD" :
            b \in Chance(Prob(1, lm.avg_good_duration), 1)}
    ELSE {IF b THEN "GOOD" ELSE "BAD" :
            b \in Chance(Prob(1, lm.avg_bad_duration), 1)}

\* should_drop(packet): the set of <<drop, new loss state>> outcomes.
should_dropNoUpdate(lm, st, pkt, budget) ==
    CASE lm.type = "random" ->
           {<<b, st>> : b \in Chance(lm.drop_prob, budget)}
      [] lm.type = "bursty" ->
           {<<b, st>> :
              b \in Chance(IF st = "GOOD" THEN lm.p_good ELSE lm.p_bad,
                           budget)}
      [] lm.type = "dummy" -> {<<pkt.size > 1500, st>>}
      [] OTHER -> {<<FALSE, st>>}
should_drop(lm, st, pkt, budget) ==
    CASE lm.type = "random" ->
           {<<b, st>> : b \in Chance(lm.drop_prob, budget)}
      [] lm.type = "bursty" ->
           UNION {{<<b, s2>> :
                     b \in Chance(IF s2 = "GOOD" THEN lm.p_good ELSE lm.p_bad,
                                  budget)} :
                  s2 \in update_state(lm, st)}
      [] lm.type = "dummy" -> {<<pkt.size > 1500, st>>}
      [] OTHER -> {<<FALSE, st>>}

\* ------------------------------------------------------------------
\* Link
\* ------------------------------------------------------------------
\* tx_time + prop_delay of Link.run, in ticks
TxTime(c, pkt) == (pkt.size * 8 * TicksPerSec) \div (c.bandwidth_mbps * 1000000)
LinkDelayNoProp(c, pkt) == TxTime(c, pkt)
LinkDelay(c, pkt) == TxTime(c, pkt) + c.prop_delay

\* The queue-capacity test of Link.enqueue
HasRoomOffByOne(c, items) == Len(items) <= c.queue_size
HasRoom(c, items) == Len(items) < c.queue_size

\* Link.enqueue(packet), given the loss module's draw: the result, the
\* queue afterwards, and whether a put event was triggered.
\* (simpy.Store.put re-tests len(items) < capacity; under the test made
\* here it always succeeds at once.)
EnqueueHeadInsert(c, items, pkt, drop) ==
    IF c.loss.type /= "none" /\ drop
    THEN [result |-> "loss", items |-> items]
    ELSE IF HasRoom(c, items)
         THEN [result |-> "admitted", items |-> <<pkt>> \o items]
         ELSE [result |-> "full", items |-> items]
Enqueue(c, items, pkt, drop) ==
    IF c.loss.type /= "none" /\ drop
    THEN [result |-> "loss", items |-> items]
    ELSE IF HasRoom(c, items)
         THEN [result |-> "admitted", items |-> Append(items, pkt)]
         ELSE [result |-> "full", items |-> items]

\* ------------------------------------------------------------------
\* Flows: RenoFlow, CubicFlow (and the tests' DummyFlow)
\* ------------------------------------------------------------------
EmptyMap == [s \in {} |-> 0]
MapPutAlone(m, k, v) == [s \in {k} |-> v]
MapPut(m, k, v) == [s \in (DOMAIN m) \cup {k} |-> IF s = k THEN v ELSE m[s]]
MapDropAll(m, ks) == [s \in {} |-> 0]
MapDrop(m, ks) == [s \in (DOMAIN m) \ ks |-> m[s]]

None == -1

\* RenoFlow.__init__ / CubicFlow.__init__
NewFlow(variant) ==
    [variant |-> variant,
     state |-> "SLOW_START",
     cwnd |-> IF variant = "cubic" THEN 1 * WScale ELSE 1,
     ssthresh |-> IF variant = "cubic" THEN InitSsthresh * WScale
                  ELSE InitSsthresh,
     unacked |-> EmptyMap,
     seq |-> 0,
     last_ack |-> -1,
     dup_ack_count |-> 0,
     ca_ack_count |-> 0,
     next_seq |-> 0,
     valid_ack_count |-> 0,
     received_seqs |-> {},
     W_max |-> 0,
     epoch_start |-> None,
     K |-> 0,
     received |-> <<>>,
     new_acks |-> 0,
     timeout_at |-> None,
     recover |-> None]

\* What a handler hands back: the flow afterwards, the packets for which it
\* started a link.enqueue process, and the event names it recorded.
Out(fl, retx, log) == [fl |-> fl, retx |-> retx, log |-> log]

\* The sender's terminal test: seq >= num_packets and not unacked
sender_doneIgnoringUnacked(fl, c) == fl.seq >= c.num_packets
sender_doneOffByOne(fl, c) ==
    fl.seq + 1 >= c.num_packets /\ DOMAIN fl.unacked = {}
sender_done(fl, c) == fl.seq >= c.num_packets /\ DOMAIN fl.unacked = {}

\* can_send: len(unacked) < cwnd (Reno), < int(cwnd) (Cubic)
can_send(fl) ==
    IF fl.variant = "cubic"
    THEN Cardinality(DOMAIN fl.unacked) < fl.cwnd \div WScale
    ELSE Cardinality(DOMAIN fl.unacked) < fl.cwnd

\* oldest_unacked_send_time (None when nothing is outstanding)
oldest_unacked_send_timeNever(fl) == None
oldest_unacked_send_time(fl) ==
    IF DOMAIN fl.unacked = {} THEN None
    ELSE SetMin({fl.unacked[s] : s \in DOMAIN fl.unacked})

\* max(cwnd // 2, 1) of RenoFlow.handle_timeout / handle_retransmit
RenoHalfCeil(c) == Max((c + 1) \div 2, 1)
RenoHalfNoFloor(c) == c \div 2
RenoHalf(c) == Max(c \div 2, 1)

\* max(cwnd * beta, 1.0) of CubicFlow.handle_timeout / handle_fast_retransmit
CubicDecreaseNoFloor(c) == (c * CubicBeta.num) \div CubicBeta.den
CubicDecrease(c) == Max((c * CubicBeta.num) \div CubicBeta.den, 1 * WScale)

\* first_seq = min(self.unacked.keys())
first_unackedNewest(fl) ==
    CHOOSE s \in DOMAIN fl.unacked : \A o \in DOMAIN fl.unacked : o <= s
first_unacked(fl) == SetMin(DOMAIN fl.unacked)

\* RenoFlow.handle_timeout / CubicFlow.handle_timeout
handle_timeoutLogSwapped(fl, t) ==
    IF DOMAIN fl.unacked = {} THEN Out(fl, <<>>, <<>>)
    ELSE
      LET first_seq == SetMin(DOMAIN fl.unacked)
          cc == IF fl.variant = "cubic"
                THEN [fl EXCEPT !.W_max = fl.cwnd,
                                !.cwnd = CubicDecrease(fl.cwnd),
                                !.ssthresh = CubicDecrease(fl.cwnd),
                                !.state = "SLOW_START",
                                !.dup_ack_count = 0,
                                !.epoch_start = None]
                ELSE [fl EXCEPT !.ssthresh = RenoHalf(fl.cwnd),
                                !.cwnd = 1,
                                !.state = "SLOW_START",
                                !.dup_ack_count = 0,
                                !.ca_ack_count = 0]
      IN Out([cc EXCEPT !.unacked[first_seq] = t],
             <<Pkt(0, first_seq, PacketSize)>>,
             <<"RETRANSMIT_TIMEOUT",
               IF fl.variant = "cubic" THEN "TIMEOUT_CUBIC" ELSE "TIMEOUT">>)
handle_timeout(fl, t) ==
    IF DOMAIN fl.unacked = {} THEN Out(fl, <<>>, <<>>)
    ELSE
      LET first_seq == first_unacked(fl)
          cc == IF fl.variant = "cubic"
                THEN [fl EXCEPT !.W_max = fl.cwnd,
                                !.cwnd = CubicDecrease(fl.cwnd),
                                !.ssthresh = CubicDecrease(fl.cwnd),
                                !.state = "SLOW_START",
                                !.dup_ack_count = 0,
                                !.epoch_start = None]
                ELSE [fl EXCEPT !.ssthresh = RenoHalf(fl.cwnd),
                                !.cwnd = 1,
                                !.state = "SLOW_START",
                                !.dup_ack_count = 0,
                                !.ca_ack_count = 0]
      IN Out([cc EXCEPT !.unacked[first_seq] = t],
             <<Pkt(0, first_seq, PacketSize)>>,
             <<IF fl.variant = "cubic" THEN "TIMEOUT_CUBIC" ELSE "TIMEOUT",
               "RETRANSMIT_TIMEOUT">>)

\* the window a Reno flow enters FAST_RECOVERY with: ssthresh + 3
fr_entry_cwndCapped(c) == Min(RenoHalf(c) + 3, c)
fr_entry_cwnd(c) == RenoHalf(c) + 3

\* the missing packet: the smallest of the unacked sequence numbers above
\* the duplicated ACK value
missing_seqNewest(cands) == CHOOSE s \in cands : \A o \in cands : o <= s
missing_seq(cands) == SetMin(cands)

\* RenoFlow.handle_retransmit / CubicFlow.handle_fast_retransmit
handle_retransmitNoInflate(fl, dup_ack_seq, t) ==
    LET cc == IF fl.variant = "cubic"
              THEN [fl EXCEPT !.W_max = fl.cwnd,
                              !.cwnd = CubicDecrease(fl.cwnd),
                              !.ssthresh = CubicDecrease(fl.cwnd),
                              !.state = "FAST_RECOVERY",
                              !.dup_ack_count = 0,
                              !.epoch_start = None]
              ELSE [fl EXCEPT !.ssthresh = RenoHalf(fl.cwnd),
                              !.cwnd = RenoHalf(fl.cwnd),
                              !.state = "FAST_RECOVERY"]
        cands == {s \in DOMAIN fl.unacked : s > dup_ack_seq}
        enter == IF fl.variant = "cubic" THEN "FAST_RECOVERY_ENTER_CUBIC"
                 ELSE "FAST_RECOVERY_ENTER"
    IN IF cands = {}
       THEN Out(cc, <<>>,
                <<enter, IF fl.variant = "cubic" THEN "FAST_RETX_NO_CANDIDATE"
                         ELSE "FAST_RETRANSMIT_NO_CANDIDATE">>)
       ELSE Out([cc EXCEPT !.unacked[SetMin(cands)] = t],
                <<Pkt(0, SetMin(cands), PacketSize)>>,
                <<enter, IF fl.variant = "cubic" THEN "FAST_RETRANSMIT_CUBIC"
                         ELSE "FAST_RETRANSMIT">>)
handle_retransmitGuarded(fl, dup_ack_seq, t) ==
    LET cc == IF fl.variant = "cubic"
              THEN [fl EXCEPT !.W_max = fl.cwnd,
                              !.cwnd = CubicDecrease(fl.cwnd),
                              !.ssthresh = CubicDecrease(fl.cwnd),
                              !.state = "FAST_RECOVERY",
                              !.dup_ack_count = 0,
                              !.epoch_start = None]
              ELSE [fl EXCEPT !.ssthresh = RenoHalf(fl.cwnd),
                              !.cwnd = RenoHalf(fl.cwnd) + 3,
                              !.state = "FAST_RECOVERY"]
        cands == {s \in DOMAIN fl.unacked : s > dup_ack_seq}
        enter == IF fl.variant = "cubic" THEN "FAST_RECOVERY_ENTER_CUBIC"
                 ELSE "FAST_RECOVERY_ENTER"
    IN IF DOMAIN fl.unacked = {} THEN Out(fl, <<>>, <<>>)
       ELSE IF cands = {}
       THEN Out(cc, <<>>,
                <<enter, IF fl.variant = "cubic" THEN "FAST_RETX_NO_CANDIDATE"
                         ELSE "FAST_RETRANSMIT_NO_CANDIDATE">>)
       ELSE Out([cc EXCEPT !.unacked[SetMin(cands)] = t],
                <<Pkt(0, SetMin(cands), PacketSize)>>,
                <<enter, IF fl.variant = "cubic" THEN "FAST_RETRANSMIT_CUBIC"
                         ELSE "FAST_RETRANSMIT">>)
handle_retransmitBlind(fl, dup_ack_seq, t) ==
    LET cc == IF fl.variant = "cubic"
              THEN [fl EXCEPT !.W_max = fl.cwnd,
                              !.cwnd = CubicDecrease(fl.cwnd),
                              !.ssthresh = CubicDecrease(fl.cwnd),
                              !.state = "FAST_RECOVERY",
                              !.dup_ack_count = 0,
                              !.epoch_start = None]
              ELSE [fl EXCEPT !.ssthresh = RenoHalf(fl.cwnd),
                              !.cwnd = RenoHalf(fl.cwnd) + 3,
                              !.state = "FAST_RECOVERY"]
        cands == {dup_ack_seq + 1}
        enter == IF fl.variant = "cubic" THEN "FAST_RECOVERY_ENTER_CUBIC"
                 ELSE "FAST_RECOVERY_ENTER"
    IN IF cands = {}
       THEN Out(cc, <<>>,
                <<enter, IF fl.variant = "cubic" THEN "FAST_RETX_NO_CANDIDATE"
                         ELSE "FAST_RETRANSMIT_NO_CANDIDATE">>)
       ELSE Out([cc EXCEPT !.unacked[SetMin(cands)] = t],
                <<Pkt(0, SetMin(cands), PacketSize)>>,
                <<enter, IF fl.variant = "cubic" THEN "FAST_RETRANSMIT_CUBIC"
                         ELSE "FAST_RETRANSMIT">>)
handle_retransmit(fl, dup_ack_seq, t) ==
    LET cc == IF fl.variant = "cubic"
              THEN [fl EXCEPT !.W_max = fl.cwnd,
                              !.cwnd = CubicDecrease(fl.cwnd),
                              !.ssthresh = CubicDecrease(fl.cwnd),
                              !.state = "FAST_RECOVERY",
                              !.dup_ack_count = 0,
                              !.epoch_start = None]
              ELSE [fl EXCEPT !.ssthresh = RenoHalf(fl.cwnd),
                              !.cwnd = fr_entry_cwnd(fl.cwnd),
                              !.state = "FAST_RECOVERY"]
        cands == {s \in DOMAIN fl.unacked : s > dup_ack_seq}
        enter == IF fl.variant = "cubic" THEN "FAST_RECOVERY_ENTER_CUBIC"
                 ELSE "FAST_RECOVERY_ENTER"
    IN IF cands = {}
       THEN Out(cc, <<>>,
                <<enter, IF fl.variant = "cubic" THEN "FAST_RETX_NO_CANDIDATE"
                         ELSE "FAST_RETRANSMIT_NO_CANDIDATE">>)
       ELSE Out([cc EXCEPT !.unacked[missing_seq(cands)] = t],
                <<Pkt(0, missing_seq(cands), PacketSize)>>,
                <<enter, IF fl.variant = "cubic" THEN "FAST_RETRANSMIT_CUBIC"
                         ELSE "FAST_RETRANSMIT">>)

\* Integer cube root, for K = cbrt(W_max * (1 - beta) / C)
MaxCbrt == 1000
ICbrt(x) == CHOOSE k \in 0..MaxCbrt : k * k * k <= x /\ x < (k + 1) * (k + 1) * (k + 1)

\* K in 1/CubicTimeScale s, from W_max in 1/WScale packet
CubicK(W) ==
    IF W > 0
    THEN ICbrt(((W * ((CubicTimeScale * CubicTimeScale * CubicTimeScale) \div WScale))
                  \div (CubicBeta.den * CubicC.num))
               * ((CubicBeta.den - CubicBeta.num) * CubicC.den))
    ELSE 0

\* W_cubic = C (t - K)^3 + W_max, floored at 1.0; d = t - K
WCubic(d, W) ==
    LET mag == (Abs(d) * Abs(d) * Abs(d) * CubicC.num)
                 \div (CubicC.den * ((CubicTimeScale * CubicTimeScale * CubicTimeScale) \div WScale))
        w == IF d < 0 THEN W - mag ELSE W + mag
    IN  IF w < 1 * WScale THEN 1 * WScale ELSE w

\* the step of cwnd towards W_cubic
CubicMoveUnguarded(cwnd, w) == cwnd + Min(w - cwnd, 1 * WScale)
CubicMove(cwnd, w) ==
    IF w > cwnd THEN cwnd + Min(w - cwnd, 1 * WScale) ELSE cwnd

\* CubicFlow.cubic_update_on_new_ack
cubic_update_on_new_ack(fl, t) ==
    LET ep == IF fl.epoch_start = None
              THEN LET wm == IF fl.W_max = 0 THEN fl.cwnd ELSE fl.W_max
                   IN [fl EXCEPT !.epoch_start = t, !.W_max = wm,
                                 !.K = CubicK(wm)]
              ELSE fl
        tt == ((t - ep.epoch_start) * CubicTimeScale) \div TicksPerSec
        W_cubic == WCubic(tt - ep.K, ep.W_max)
    IN [ep EXCEPT !.cwnd = CubicMove(ep.cwnd, W_cubic)]

\* The RTT samples recorded for the packets a new ACK removes
RECURSIVE Repeat(_, _)
Repeat(x, n) == IF n <= 0 THEN <<>> ELSE <<x>> \o Repeat(x, n - 1)

\* the window a Reno flow leaves FAST_RECOVERY with: cwnd = ssthresh
fr_exit_cwndInflated(fl) == fl.cwnd
fr_exit_cwnd(fl) == fl.ssthresh

\* _ca_ack_count on leaving FAST_RECOVERY: the branch does not assign it
fr_exit_countReset(fl) == 0
fr_exit_count(fl) == fl.ca_ack_count

\* the congestion-avoidance test, made after _ca_ack_count += 1:
\* _ca_ack_count >= cwnd
ca_window_dueLate(fl) == fl.ca_ack_count >= fl.cwnd
ca_window_due(fl) == fl.ca_ack_count + 1 >= fl.cwnd

\* on_ack, NEW ACK branch: the congestion-control part
RenoNewAckStrict(fl) ==
    CASE fl.state = "SLOW_START" ->
           Out([fl EXCEPT !.cwnd = fl.cwnd + 1,
                          !.state = IF fl.cwnd + 1 > fl.ssthresh
                                    THEN "CONGESTION_AVOID" ELSE fl.state],
               <<>>,
               IF fl.cwnd + 1 > fl.ssthresh THEN <<"RENO_STATE_CHANGE">>
               ELSE <<>>)
      [] fl.state = "CONGESTION_AVOID" ->
           Out(IF fl.ca_ack_count + 1 >= fl.cwnd
               THEN [fl EXCEPT !.cwnd = fl.cwnd + 1, !.ca_ack_count = 0]
               ELSE [fl EXCEPT !.ca_ack_count = fl.ca_ack_count + 1],
               <<>>, <<>>)
      [] fl.state = "FAST_RECOVERY" ->
           Out([fl EXCEPT !.cwnd = fl.ssthresh, !.state = "CONGESTION_AVOID"],
               <<>>, <<"RENO_STATE_CHANGE">>)
      [] OTHER -> Out(fl, <<>>, <<>>)

RenoNewAckExitToSlowStart(fl) ==
    CASE fl.state = "SLOW_START" ->
           Out([fl EXCEPT !.cwnd = fl.cwnd + 1,
                          !.state = IF fl.cwnd + 1 >= fl.ssthresh
                                    THEN "CONGESTION_AVOID" ELSE fl.state],
               <<>>,
               IF fl.cwnd + 1 >= fl.ssthresh THEN <<"RENO_STATE_CHANGE">>
               ELSE <<>>)
      [] fl.state = "CONGESTION_AVOID" ->
           Out(IF fl.ca_ack_count + 1 >= fl.cwnd
               THEN [fl EXCEPT !.cwnd = fl.cwnd + 1, !.ca_ack_count = 0]
               ELSE [fl EXCEPT !.ca_ack_count = fl.ca_ack_count + 1],
               <<>>, <<>>)
      [] fl.state = "FAST_RECOVERY" ->
           Out([fl EXCEPT !.cwnd = fl.ssthresh, !.state = "SLOW_START"],
               <<>>, <<"RENO_STATE_CHANGE">>)
      [] OTHER -> Out(fl, <<>>, <<>>)

RenoNewAck(fl) ==
    CASE fl.state = "SLOW_START" ->
           Out([fl EXCEPT !.cwnd = fl.cwnd + 1,
                          !.state = IF fl.cwnd + 1 >= fl.ssthresh
                                    THEN "CONGESTION_AVOID" ELSE fl.state],
               <<>>,
               IF fl.cwnd + 1 >= fl.ssthresh THEN <<"RENO_STATE_CHANGE">>
               ELSE <<>>)
      [] fl.state = "CONGESTION_AVOID" ->
           Out(IF ca_window_due(fl)
               THEN [fl EXCEPT !.cwnd = fl.cwnd + 1, !.ca_ack_count = 0]
               ELSE [fl EXCEPT !.ca_ack_count = fl.ca_ack_count + 1],
               <<>>, <<>>)
      [] fl.state = "FAST_RECOVERY" ->
           Out([fl EXCEPT !.cwnd = fr_exit_cwnd(fl),
                          !.ca_ack_count = fr_exit_count(fl),
                          !.state = "CONGESTION_AVOID"],
               <<>>, <<"RENO_STATE_CHANGE">>)
      [] OTHER -> Out(fl, <<>>, <<>>)

CubicNewAck(fl, t) ==
    CASE fl.state = "SLOW_START" ->
           IF fl.cwnd + 1 * WScale >= fl.ssthresh
           THEN Out([fl EXCEPT !.cwnd = fl.cwnd + 1 * WScale,
                               !.state = "CUBIC_CA",
                               !.epoch_start = None],
                    <<>>, <<"CC_STATE_CHANGE">>)
           ELSE Out([fl EXCEPT !.cwnd = fl.cwnd + 1 * WScale], <<>>, <<>>)
      [] fl.state \in {"CUBIC_CA", "FAST_RECOVERY"} ->
           LET u == cubic_update_on_new_ack(fl, t)
           IN IF fl.state = "FAST_RECOVERY"
              THEN Out([u EXCEPT !.state = "CUBIC_CA"], <<>>,
                       <<"CC_STATE_CHANGE">>)
              ELSE Out(u, <<>>, <<>>)
      [] OTHER -> Out(fl, <<>>, <<>>)

\* the unacked entries a new ACK removes: seq <= ack_seq
acked_seqsStrict(fl, ack_seq) == {s \in DOMAIN fl.unacked : s < ack_seq}
acked_seqs(fl, ack_seq) == {s \in DOMAIN fl.unacked : s <= ack_seq}

\* the duplicate-ACK test for fast retransmit:
\* dup_ack_count == 3 and state != "FAST_RECOVERY"
third_dup_ackAnyState(fl) == fl.dup_ack_count = 3
third_dup_ack(fl) == fl.dup_ack_count = 3 /\ fl.state /= "FAST_RECOVERY"

\* the stale-ACK test: ack_seq < last_ack
stale_ackOffByOne(fl, ack_seq) == ack_seq + 1 < fl.last_ack
stale_ack(fl, ack_seq) == ack_seq < fl.last_ack

\* RenoFlow.on_ack / CubicFlow.on_ack
on_ack(fl, ack_seq, t) ==
    IF stale_ack(fl, ack_seq) THEN Out(fl, <<>>, <<>>)
    ELSE IF ack_seq > fl.last_ack
    THEN LET acked == acked_seqs(fl, ack_seq)
             f1 == [fl EXCEPT !.unacked = MapDrop(fl.unacked, acked),
                              !.dup_ack_count = 0]
             cc == IF fl.variant = "cubic" THEN CubicNewAck(f1, t)
                   ELSE RenoNewAck(f1)
         IN Out([cc.fl EXCEPT !.last_ack = ack_seq,
                              !.new_acks = fl.new_acks + 1], <<>>,
                Repeat("rtt_sample", Cardinality(acked)) \o cc.log)
    ELSE LET f1 == [fl EXCEPT !.dup_ack_count = fl.dup_ack_count + 1]
         IN IF third_dup_ack(f1)
            THEN LET r == handle_retransmit(f1, ack_seq, t)
                 IN Out([r.fl EXCEPT !.recover = fl.seq - 1], r.retx, r.log)
            ELSE IF f1.state = "FAST_RECOVERY"
            THEN Out([f1 EXCEPT !.cwnd = f1.cwnd +
                         (IF fl.variant = "cubic" THEN 1 * WScale ELSE 1)],
                     <<>>, <<>>)
            ELSE Out(f1, <<>>, <<>>)

\* the contiguous-prefix advance of next_seq
RECURSIVE Advance(_, _)
AdvanceOnce(n, rs) == IF n \in rs THEN n + 1 ELSE n
Advance(n, rs) == IF n \in rs THEN Advance(n + 1, rs) ELSE n

\* ack_seq = next_seq - 1 after the advance, the value handed to on_ack and
\* to logger.record_ack
ack_seq_ofArrived(fl, pkt) == pkt.seq
ack_seq_of(fl, pkt) ==
    Advance(fl.next_seq, fl.received_seqs \cup {pkt.seq}) - 1

\* on_packet_arrival (DummyFlow: append (pkt, now) to received)
on_packet_arrival(fl, pkt, t) ==
    IF fl.variant = "dummy"
    THEN Out([fl EXCEPT !.received = Append(fl.received, <<pkt.seq, t>>)],
             <<>>, <<>>)
    ELSE LET rs == fl.received_seqs \cup {pkt.seq}
             nx == Advance(fl.next_seq, rs)
             f1 == [fl EXCEPT !.received_seqs = rs,
                              !.next_seq = nx,
                              !.valid_ack_count =
                                  IF nx > fl.next_seq
                                  THEN Max(fl.valid_ack_count, nx)
                                  ELSE fl.valid_ack_count]
         IN on_ack(f1, ack_seq_of(fl, pkt), t)

\* ------------------------------------------------------------------
\* Configurations
\* ------------------------------------------------------------------
Config(bw, prop, qsize, loss, variants, npk, rto, until, test_pkts) ==
    [bandwidth_mbps |-> bw, prop_delay |-> prop, queue_size |-> qsize,
     loss |-> loss, variants |-> variants, num_packets |-> npk,
     rto |-> rto, until |-> until, test_pkts |-> test_pkts]

Flows(c) == 1..Len(c.variants)

\* Small runs: short rto and delays (in ticks), lossy link, few packets.
SmallConfigs ==
    {Config(bw, 10, qs, loss, vs, MaxPackets, rto, SmallUntil, <<>>) :
        bw \in {6, 12}, qs \in {1, 3}, rto \in {80, 160},
        loss \in {RandomLoss(Prob(1, 100)),
                  BurstyLoss(Prob(1, 100), Prob(1, 1), 5, 2)},
        vs \in {<<"reno">>, <<"cubic">>}}
    \cup
    {Config(6, 10, 2, RandomLoss(Prob(1, 100)), <<"reno", "cubic">>,
            MaxPackets - 3, 80, SmallUntil, <<>>)}

\* BurstyLoss with mean sojourn 1 in both states: update_state flips the
\* state on every call (random() < 1 / 1 always holds).
ToggleLossConfigs ==
    {Config(6, 10, qs, BurstyLoss(Prob(0, 1), Prob(1, 2), 1, 1), <<v>>,
            MaxPackets, 80, SmallUntil, <<>>) :
        qs \in {1, 2}, v \in {"reno", "cubic"}}

\* A loss-free run long enough to leave the initial slow start: the link
\* delay equals the pacing interval, so every packet is acknowledged before
\* the next is sent.
SlowStartPackets == 70
SlowStartConfigs ==
    {Config(12, 0, 4, NoLoss, <<"reno">>, SlowStartPackets, TicksPerSec,
            SlowStartPackets * PacingTicks + 2 * PacingTicks, <<>>)}

\* Loss-free runs over a slow link with a short queue and a short rto:
\* queue-full drops, duplicate ACKs and timeouts without a loss module.
CongestedConfigs ==
    {Config(k[1], k[2], k[3], NoLoss, <<v>>, k[4], k[5], SmallUntil, <<>>) :
        k \in {<<6, 0, 6, 12, 80>>, <<24, 10, 4, 30, 160>>,
                <<24, 10, 2, 20, 160>>},
        v \in {"reno", "cubic"}}

\* A longer loss-free Reno run over a slow link with a queue of 2: the flow
\* reaches CONGESTION_AVOID, counts ACKs there, and then goes through
\* FAST_RECOVERY.
LongUntil == 800
LongCongestedConfigs ==
    {Config(6, 0, 2, NoLoss, <<"reno">>, 30, 160, LongUntil, <<>>)}

\* The link tests of src/tests/test_link.py: a DummyFlow and DummyPackets
\* handed to link.enqueue at time 0.
LinkTestConfigs ==
    {Config(10, 1000, 2, NoLoss, <<"dummy">>, 0, 0, 10000, <<1000, 2000, 1500>>),
     Config(10, 1000, 5, DummyLossModule, <<"dummy">>, 0, 0, 10000, <<1000, 2000>>),
     Config(10, 1000, 5, NoLoss, <<"dummy">>, 0, 0, 2008, <<1000>>)}

\* Bursts of enqueue attempts started at time 0 on an idle link, as in
\* test_link_enqueue_dequeue: M = N + 1 or N + 2 attempts, queue capacity N.
BurstConfigs ==
    {Config(10, 1000, n, NoLoss, <<"dummy">>, 0, 0, (n + 1) * 1100,
            [i \in 1..(n + extra) |-> 1000]) :
        n \in 1..MaxBurstQueue, extra \in {1, 2}}

\* test_reno_flow_sending_packets: a RenoFlow with the default num_packets
\* and rto over a 10 Mbps, 0.1 s, capacity-5 link, run until 0.02 s.
RenoTestConfigs ==
    {Config(10, TicksPerSec \div 10, 5, NoLoss, <<"reno">>, 10000,
            1 * TicksPerSec, TicksPerSec \div 50, <<>>)}

\* The end-to-end scenario: 10 Mbps, 0.05 s, queue 20, 50 packets, rto 1.0 s
E2ERto == 1 * TicksPerSec
E2EConfigs ==
    {Config(10, TicksPerSec \div 20, 20, NoLoss, <<"reno">>, 50,
            E2ERto, 10 * TicksPerSec, <<>>)}
    \cup
    {Config(10, TicksPerSec \div 20, 20, RandomLoss(Prob(1, 1)), <<"reno">>,
            50, E2ERto, until, <<>>) :
        until \in {E2ERto, E2ERto + 1, 2 * E2ERto + E2ERto \div 2}}

\* ------------------------------------------------------------------
\* Construction
\* ------------------------------------------------------------------
RECURSIVE FlowInits(_, _)
FlowInits(c, f) ==
    IF f > Len(c.variants) THEN <<>>
    ELSE (IF c.variants[f] = "dummy" THEN <<>>
          ELSE <<Ev(0, URGENT, "sender_init", f, NoPkt, FALSE),
                 Ev(0, URGENT, "timer_init", f, NoPkt, FALSE)>>)
         \o FlowInits(c, f + 1)

TestInits(c) ==
    [i \in 1..Len(c.test_pkts) |->
        Ev(0, URGENT, "enq_init", 0, Pkt(1, i, c.test_pkts[i]), FALSE)]

\* The last step: the operation, its flow and packet, its outcome, the
\* events it recorded, the loss module's answer, and the flow's window and
\* state before it (the old_cwnd / old_ssthresh / old_state of the TIMEOUT
\* event details).
NoOld == [cwnd |-> 0, ssthresh |-> 0, state |-> "", timeout_at |-> None]
OldOf(fl) ==
    [cwnd |-> fl.cwnd, ssthresh |-> fl.ssthresh, state |-> fl.state,
     timeout_at |-> fl.timeout_at]
Last(op, f, pkt, result, log) ==
    [op |-> op, f |-> f, pkt |-> pkt, result |-> result, log |-> log,
     drop |-> FALSE, old |-> NoOld, ack |-> None]

InitWith(C) ==
    /\ cfg \in C
    /\ now = 0
    /\ evq = <<Ev(0, URGENT, "link_init", 0, NoPkt, FALSE)>>
               \o FlowInits(cfg, 1) \o TestInits(cfg)
    /\ queue = <<>>
    /\ getWaiting = FALSE
    /\ linkBusy = [pkt |-> NoPkt, since |-> 0]
    /\ lossState = "GOOD"
    /\ drops = 0
    /\ flow = [f \in Flows(cfg) |-> NewFlow(cfg.variants[f])]
    /\ sink = {}
    /\ last = Last("construct", 0, NoPkt, "", <<>>)
    /\ hist = [attempts |-> 0, admitted |-> 0, delivered |-> 0,
               deliveredAt |-> None]

Init == InitWith(SmallConfigs \cup CongestedConfigs \cup SlowStartConfigs
                 \cup LinkTestConfigs \cup BurstConfigs
                 \cup ToggleLossConfigs \cup RenoTestConfigs
                 \cup LongCongestedConfigs)
InitE2E == InitWith(E2EConfigs)

\* ------------------------------------------------------------------
\* simpy.Store get / the resumption of processes
\* ------------------------------------------------------------------
\* Store._do_get: hand the head item to a get, whose event fires at now
StoreGetLifo(items, q, t) ==
    IF items /= <<>>
    THEN [items |-> SubSeq(items, 1, Len(items) - 1), waiting |-> FALSE,
          evq |-> Schedule(q, Ev(t, NORMAL, "link_get", 0,
                                 items[Len(items)], FALSE))]
    ELSE [items |-> items, waiting |-> TRUE, evq |-> q]
StoreGet(items, q, t) ==
    IF items /= <<>>
    THEN [items |-> Tail(items), waiting |-> FALSE,
          evq |-> Schedule(q, Ev(t, NORMAL, "link_get", 0, Head(items), FALSE))]
    ELSE [items |-> items, waiting |-> TRUE, evq |-> q]

\* env.process(self.link.enqueue(pkt)) for each packet, nobody waiting
StartEnqueuesDeferred(q, t, f, pkts) ==
    ScheduleAll(q, [i \in 1..Len(pkts) |->
                      Ev(t + PacingTicks, URGENT, "enq_init", 0,
                         [pkts[i] EXCEPT !.flow = f], FALSE)])
StartEnqueues(q, t, f, pkts) ==
    ScheduleAll(q, [i \in 1..Len(pkts) |->
                      Ev(t, URGENT, "enq_init", 0,
                         [pkts[i] EXCEPT !.flow = f], FALSE)])

Record(snk, f, log) == snk \cup {<<f, log[i]>> : i \in 1..Len(log)}

\* ------------------------------------------------------------------
\* Actions: one per resumption
\* ------------------------------------------------------------------
\* Link.run starts: yield self.queue.get()
LinkStart ==
    /\ CanStep /\ Head(evq).kind = "link_init"
    /\ LET e == Head(evq)
           g == StoreGet(queue, Tail(evq), e.time)
       IN /\ now' = e.time
          /\ queue' = g.items
          /\ getWaiting' = g.waiting
          /\ evq' = g.evq
          /\ last' = Last("link_start", 0, NoPkt, "", <<>>)
    /\ UNCHANGED <<cfg, linkBusy, lossState, drops, flow, sink, hist>>

\* Link.run gets a packet: yield env.timeout(tx_time + prop_delay)
LinkTransmitPipelined ==
    /\ CanStep /\ Head(evq).kind = "link_get"
    /\ LET e == Head(evq)
           q1 == Schedule(Tail(evq),
                          Ev(e.time + LinkDelay(cfg, e.pkt), NORMAL,
                             "link_tx", 0, e.pkt, FALSE))
           g == StoreGet(queue, q1, e.time + TxTime(cfg, e.pkt))
       IN /\ now' = e.time
          /\ queue' = g.items
          /\ evq' = g.evq
          /\ linkBusy' = [pkt |-> e.pkt, since |-> e.time]
          /\ last' = Last("link_transmit", e.pkt.flow, e.pkt, "", <<>>)
    /\ UNCHANGED <<cfg, getWaiting, lossState, drops, flow, sink, hist>>
LinkTransmit ==
    /\ CanStep /\ Head(evq).kind = "link_get"
    /\ LET e == Head(evq)
       IN /\ now' = e.time
          /\ evq' = Schedule(Tail(evq),
                             Ev(e.time + LinkDelay(cfg, e.pkt), NORMAL,
                                "link_tx", 0, e.pkt, FALSE))
          /\ linkBusy' = [pkt |-> e.pkt, since |-> e.time]
          /\ last' = Last("link_transmit", e.pkt.flow, e.pkt, "", <<>>)
    /\ UNCHANGED <<cfg, queue, getWaiting, lossState, drops, flow, sink, hist>>

\* Link.run delivers: pkt.flow.on_packet_arrival(pkt), then the next get()
LinkDeliver ==
    /\ CanStep /\ Head(evq).kind = "link_tx"
    /\ LET e == Head(evq)
           f == e.pkt.flow
           r == on_packet_arrival(flow[f], e.pkt, e.time)
           q1 == StartEnqueues(Tail(evq), e.time, f, r.retx)
           g == StoreGet(queue, q1, e.time)
       IN /\ now' = e.time
          /\ flow' = [flow EXCEPT ![f] = r.fl]
          /\ sink' = Record(sink, f, r.log)
          /\ queue' = g.items
          /\ getWaiting' = g.waiting
          /\ evq' = g.evq
          /\ linkBusy' = [pkt |-> NoPkt, since |-> e.time]
          /\ last' = [Last("deliver", f, e.pkt, "", r.log)
                        EXCEPT !.old = OldOf(flow[f]),
                               !.ack = ack_seq_of(flow[f], e.pkt)]
          /\ hist' = [hist EXCEPT !.delivered = hist.delivered + 1,
                                  !.deliveredAt = e.time]
    /\ UNCHANGED <<cfg, lossState, drops>>

\* One iteration of RenoFlow.sender / CubicFlow.sender, up to its yield
SenderStep ==
    /\ CanStep /\ Head(evq).kind \in {"sender_init", "sender_pace"}
    /\ LET e == Head(evq)
           f == e.f
           fl == flow[f]
       IN /\ now' = e.time
          /\ IF sender_done(fl, cfg)
             THEN /\ flow' = flow
                  /\ sink' = Record(sink, f, <<"SENDER_DONE">>)
                  /\ evq' = Schedule(Tail(evq),
                               Ev(e.time, NORMAL, "proc_end", 0, NoPkt, FALSE))
                  /\ last' = Last("sender", f, NoPkt, "done", <<"SENDER_DONE">>)
             ELSE IF can_send(fl) /\ fl.seq < cfg.num_packets
             THEN /\ flow' = [flow EXCEPT
                                ![f].seq = fl.seq + 1,
                                ![f].unacked = MapPut(fl.unacked, fl.seq, e.time)]
                  /\ sink' = sink
                  /\ evq' = Schedule(Tail(evq),
                               Ev(e.time, URGENT, "enq_init", f,
                                  Pkt(f, fl.seq, PacketSize), FALSE))
                  /\ last' = Last("sender", f, Pkt(f, fl.seq, PacketSize),
                                  "sent", <<>>)
             ELSE /\ flow' = flow
                  /\ sink' = sink
                  /\ evq' = Schedule(Tail(evq),
                               Ev(e.time + PacingTicks, NORMAL, "sender_pace",
                                  f, NoPkt, FALSE))
                  /\ last' = Last("sender", f, NoPkt, "paced", <<>>)
    /\ UNCHANGED <<cfg, queue, getWaiting, linkBusy, lossState, drops, hist>>

\* the timer's polling period: rto / 2.0
timer_periodQuarter(c) == c.rto \div 4
timer_period(c) == c.rto \div 2

\* timer starts: yield env.timeout(rto / 2.0)
TimerStart ==
    /\ CanStep /\ Head(evq).kind = "timer_init"
    /\ LET e == Head(evq)
       IN /\ now' = e.time
          /\ evq' = Schedule(Tail(evq),
                             Ev(e.time + timer_period(cfg), NORMAL, "timer_tick",
                                e.f, NoPkt, FALSE))
          /\ last' = Last("timer_start", e.f, NoPkt, "", <<>>)
    /\ UNCHANGED <<cfg, queue, getWaiting, linkBusy, lossState, drops, flow,
                   sink, hist>>

\* timer wakes: the age test, handle_timeout, and the next timeout(rto / 2.0)
TimerTickStrict ==
    /\ CanStep /\ Head(evq).kind = "timer_tick"
    /\ LET e == Head(evq)
           f == e.f
           oldest == oldest_unacked_send_time(flow[f])
           fire == oldest /= None /\ e.time - oldest > cfg.rto
           r == IF fire THEN handle_timeout(flow[f], e.time)
                ELSE Out(flow[f], <<>>, <<>>)
           q1 == StartEnqueues(Tail(evq), e.time, f, r.retx)
       IN /\ now' = e.time
          /\ flow' = [flow EXCEPT ![f] =
                        [r.fl EXCEPT !.timeout_at = IF fire THEN e.time ELSE @]]
          /\ sink' = Record(sink, f, r.log)
          /\ evq' = Schedule(q1, Ev(e.time + cfg.rto \div 2, NORMAL,
                                    "timer_tick", f, NoPkt, FALSE))
          /\ last' = [Last("timer", f, NoPkt,
                           IF fire THEN "timeout" ELSE "", r.log)
                        EXCEPT !.old = OldOf(flow[f])]
    /\ UNCHANGED <<cfg, queue, getWaiting, linkBusy, lossState, drops, hist>>

TimerTick ==
    /\ CanStep /\ Head(evq).kind = "timer_tick"
    /\ LET e == Head(evq)
           f == e.f
           oldest == oldest_unacked_send_time(flow[f])
           fire == oldest /= None /\ e.time - oldest >= cfg.rto
           r == IF fire THEN handle_timeout(flow[f], e.time)
                ELSE Out(flow[f], <<>>, <<>>)
           q1 == StartEnqueues(Tail(evq), e.time, f, r.retx)
       IN /\ now' = e.time
          /\ flow' = [flow EXCEPT ![f] =
                        [r.fl EXCEPT !.timeout_at = IF fire THEN e.time ELSE @]]
          /\ sink' = Record(sink, f, r.log)
          /\ evq' = Schedule(q1, Ev(e.time + timer_period(cfg), NORMAL,
                                    "timer_tick", f, NoPkt, FALSE))
          /\ last' = [Last("timer", f, NoPkt,
                           IF fire THEN "timeout" ELSE "", r.log)
                        EXCEPT !.old = OldOf(flow[f])]
    /\ UNCHANGED <<cfg, queue, getWaiting, linkBusy, lossState, drops, hist>>

\* Link.enqueue(packet) runs: loss module, capacity test, queue.put
EnqueueStart ==
    /\ CanStep /\ Head(evq).kind = "enq_init"
    /\ LET e == Head(evq)
       IN \E o \in should_drop(cfg.loss, lossState, e.pkt, MaxDrops - drops) :
            LET p == [e.pkt EXCEPT !.enq = e.time,
                                   !.idle = getWaiting /\ queue = <<>>,
                                   !.adm = hist.admitted + 1]
                r == Enqueue(cfg, queue, p, o[1])
            IN /\ now' = e.time
               /\ lossState' = o[2]
               /\ drops' = IF o[1] THEN Min(drops + 1, MaxDrops) ELSE drops
               /\ queue' = r.items
               /\ evq' = Schedule(Tail(evq),
                            IF r.result = "admitted"
                            THEN Ev(e.time, NORMAL, "put", e.f, p, TRUE)
                            ELSE Ev(e.time, NORMAL, "proc_end", e.f, p, FALSE))
               /\ last' = [Last("enqueue", p.flow, p, r.result, <<>>)
                             EXCEPT !.drop = o[1]]
               /\ hist' = [hist EXCEPT
                             !.attempts = hist.attempts + 1,
                             !.admitted = IF r.result = "admitted"
                                          THEN hist.admitted + 1
                                          ELSE hist.admitted]
    /\ UNCHANGED <<cfg, getWaiting, linkBusy, flow, sink>>

\* The put event fires: a waiting get is served, enqueue returns True
PutDone ==
    /\ CanStep /\ Head(evq).kind = "put"
    /\ LET e == Head(evq)
           g == IF getWaiting THEN StoreGet(queue, Tail(evq), e.time)
                ELSE [items |-> queue, waiting |-> FALSE, evq |-> Tail(evq)]
       IN /\ now' = e.time
          /\ queue' = g.items
          /\ getWaiting' = g.waiting
          /\ evq' = Schedule(g.evq,
                             Ev(e.time, NORMAL, "proc_end", e.f, e.pkt, TRUE))
          /\ last' = Last("put", e.pkt.flow, e.pkt, "", <<>>)
    /\ UNCHANGED <<cfg, linkBusy, lossState, drops, flow, sink, hist>>

\* A process ends: a sender waiting on its enqueue resumes and paces
ProcessEndNoPace ==
    /\ CanStep /\ Head(evq).kind = "proc_end"
    /\ LET e == Head(evq)
       IN /\ now' = e.time
          /\ evq' = IF e.f /= 0
                    THEN Schedule(Tail(evq),
                                  Ev(e.time, NORMAL,
                                     "sender_pace", e.f, NoPkt, FALSE))
                    ELSE Tail(evq)
          /\ last' = Last("proc_end", e.f, e.pkt,
                          IF e.val THEN "True" ELSE "False", <<>>)
    /\ UNCHANGED <<cfg, queue, getWaiting, linkBusy, lossState, drops, flow,
                   sink, hist>>
ProcessEnd ==
    /\ CanStep /\ Head(evq).kind = "proc_end"
    /\ LET e == Head(evq)
       IN /\ now' = e.time
          /\ evq' = IF e.f /= 0
                    THEN Schedule(Tail(evq),
                                  Ev(e.time + PacingTicks, NORMAL,
                                     "sender_pace", e.f, NoPkt, FALSE))
                    ELSE Tail(evq)
          /\ last' = Last("proc_end", e.f, e.pkt,
                          IF e.val THEN "True" ELSE "False", <<>>)
    /\ UNCHANGED <<cfg, queue, getWaiting, linkBusy, lossState, drops, flow,
                   sink, hist>>

Next ==
    \/ LinkStart
    \/ LinkTransmit
    \/ LinkDeliver
    \/ SenderStep
    \/ TimerStart
    \/ TimerTick
    \/ EnqueueStart
    \/ PutDone
    \/ ProcessEnd

Spec == Init /\ [][Next]_vars
SpecE2E == InitE2E /\ [][Next]_vars

\* ------------------------------------------------------------------
\* Loss-free single-flow runs to a long horizon: slow and fast links, short
\* and long queues, an rto far below and far above the link delay. Every
\* pending event is eventually processed, as env.run(until) does.
\* ------------------------------------------------------------------
LiveUntil == 3000
LiveConfigs ==
    {Config(bw, prop, qs, NoLoss, <<v>>, n, rto, LiveUntil, <<>>) :
        bw \in {6, 24}, prop \in {0, 10}, qs \in {1, 3}, rto \in {2, 80},
        v \in {"reno", "cubic"}, n \in {1, MaxPackets}}

InitLive == InitWith(LiveConfigs)
SpecLive == InitLive /\ [][Next]_vars /\ WF_vars(Next)

\* ------------------------------------------------------------------
\* The handlers called directly on a constructed flow, one pacing interval
\* apart, the environment not run: the sender's packet creation, on_ack
\* with any ACK value below seq (new, duplicate or stale), handle_timeout
\* with or without outstanding packets.
\* ------------------------------------------------------------------
MaxCalls == 6
CallPackets == 4
CallConfigs ==
    {Config(10, 0, 5, NoLoss, <<v>>, CallPackets, 80,
            (MaxCalls + 1) * PacingTicks, <<>>) : v \in {"reno", "cubic"}}

InitCalls == InitWith(CallConfigs)

CanCall == now < MaxCalls * PacingTicks

CallSend ==
    /\ CanCall
    /\ \E f \in DOMAIN flow :
         LET fl == flow[f]
         IN /\ can_send(fl) /\ fl.seq < cfg.num_packets
            /\ now' = now + PacingTicks
            /\ flow' = [flow EXCEPT
                          ![f].seq = fl.seq + 1,
                          ![f].unacked = MapPut(fl.unacked, fl.seq, now')]
            /\ evq' = StartEnqueues(evq, now', f,
                                    <<Pkt(f, fl.seq, PacketSize)>>)
            /\ sink' = sink
            /\ last' = Last("sender", f, Pkt(f, fl.seq, PacketSize),
                            "sent", <<>>)
    /\ UNCHANGED <<cfg, queue, getWaiting, linkBusy, lossState, drops, hist>>

CallOnAck ==
    /\ CanCall
    /\ \E f \in DOMAIN flow : \E a \in (-1)..(flow[f].seq - 1) :
         LET r == on_ack(flow[f], a, now + PacingTicks)
         IN /\ now' = now + PacingTicks
            /\ flow' = [flow EXCEPT ![f] = r.fl]
            /\ evq' = StartEnqueues(evq, now', f, r.retx)
            /\ sink' = Record(sink, f, r.log)
            /\ last' = [Last("on_ack", f, NoPkt, "", r.log)
                          EXCEPT !.old = OldOf(flow[f]), !.ack = a]
    /\ UNCHANGED <<cfg, queue, getWaiting, linkBusy, lossState, drops, hist>>

CallHandleTimeout ==
    /\ CanCall
    /\ \E f \in DOMAIN flow :
         LET r == handle_timeout(flow[f], now + PacingTicks)
         IN /\ now' = now + PacingTicks
            /\ flow' = [flow EXCEPT ![f] = r.fl]
            /\ evq' = StartEnqueues(evq, now', f, r.retx)
            /\ sink' = Record(sink, f, r.log)
            /\ last' = [Last("handle_timeout", f, NoPkt, "", r.log)
                          EXCEPT !.old = OldOf(flow[f])]
    /\ UNCHANGED <<cfg, queue, getWaiting, linkBusy, lossState, drops, hist>>

NextCalls ==
    \/ CallSend
    \/ CallOnAck
    \/ CallHandleTimeout

SpecCalls == InitCalls /\ [][NextCalls]_vars

\* ------------------------------------------------------------------
\* Properties
\* ------------------------------------------------------------------
IsReno(f) == flow[f].variant = "reno"
IsCubic(f) == flow[f].variant = "cubic"
Recorded(f, name) == <<f, name>> \in sink
Outstanding(f) == DOMAIN flow[f].unacked

\* C1: the link queue never holds more packets than the queue capacity.
C1_QueueWithinCapacity == Len(queue) <= cfg.queue_size

\* an admission attempt turned away by a full queue
C1_Witness ==
    /\ last.op = "enqueue" /\ last.result = "full"
    /\ Len(queue) = cfg.queue_size

\* The value the enqueue process started for pkt will return, read off the
\* event the step scheduled: the put event (True) or the process end (False).
Returns(q, pkt, v) ==
    \E i \in 1..Len(q) : /\ q[i].kind \in {"put", "proc_end"}
                         /\ q[i].pkt = pkt
                         /\ q[i].val = v

\* C2: Link.enqueue drops on the loss module's answer first (False, queue
\* untouched), then on a full queue (False, queue untouched), and
\* otherwise appends the packet at the tail and returns True.
C2_EnqueueDecision ==
    [][last'.op = "enqueue" =>
         IF cfg.loss.type /= "none" /\ last'.drop
         THEN queue' = queue /\ Returns(evq', last'.pkt, FALSE)
         ELSE IF Len(queue) = cfg.queue_size
         THEN queue' = queue /\ Returns(evq', last'.pkt, FALSE)
         ELSE /\ queue' = Append(queue, last'.pkt)
              /\ Returns(evq', last'.pkt, TRUE)]_vars

\* the loss module drops a packet while the queue is non-empty
C2_Witness ==
    /\ last.op = "enqueue" /\ last.drop /\ last.result = "loss"
    /\ queue /= <<>>

NoLossRun == cfg.loss.type = "none"
FullLossRun == cfg.loss.type = "random" /\ cfg.loss.drop_prob = Prob(1, 1)

\* C3 as stated: the loss-free end-to-end run reaches SENDER_DONE with
\* every sequence number acknowledged, and records no TIMEOUT.
C3_Original ==
    NoLossRun =>
      /\ Finished => Recorded(1, "SENDER_DONE")
      /\ Recorded(1, "SENDER_DONE") =>
            (flow[1].last_ack = cfg.num_packets - 1 /\ Outstanding(1) = {})
      /\ ~Recorded(1, "TIMEOUT")

\* C3 amended: the loss-free end-to-end run reaches SENDER_DONE with every
\* sequence number acknowledged, and TIMEOUT events are recorded on the way.
C3_CompletesWithTimeouts ==
    NoLossRun =>
      /\ Finished => Recorded(1, "SENDER_DONE")
      /\ Recorded(1, "SENDER_DONE") =>
            (flow[1].last_ack = cfg.num_packets - 1 /\ Outstanding(1) = {})
      /\ Finished => Recorded(1, "TIMEOUT")

C3_Witness ==
    /\ NoLossRun /\ Finished
    /\ Recorded(1, "SENDER_DONE")
    /\ flow[1].last_ack = 49

\* C4 as stated: with RandomLoss(1.0) nothing is admitted or delivered,
\* SENDER_DONE is never recorded, and every run to a horizon of at least rto
\* records a TIMEOUT.
C4_Original ==
    FullLossRun =>
      /\ last.op = "enqueue" => last.result = "loss"
      /\ queue = <<>> /\ linkBusy.pkt = NoPkt /\ flow[1].next_seq = 0
      /\ ~Recorded(1, "SENDER_DONE")
      /\ (Finished /\ cfg.until >= cfg.rto) => Recorded(1, "TIMEOUT")

\* C4 amended: the same, for every horizon strictly greater than rto (the
\* timer's check at time rto is not run when the horizon is rto itself).
C4_FullLoss ==
    FullLossRun =>
      /\ last.op = "enqueue" => last.result = "loss"
      /\ queue = <<>> /\ linkBusy.pkt = NoPkt /\ flow[1].next_seq = 0
      /\ ~Recorded(1, "SENDER_DONE")
      /\ (Finished /\ cfg.until > cfg.rto) => Recorded(1, "TIMEOUT")

C4_Witness ==
    /\ FullLossRun /\ Finished /\ cfg.until > cfg.rto
    /\ Recorded(1, "TIMEOUT")
    /\ Outstanding(1) /= {}

\* a step in which flow f's timer ran handle_timeout with packets outstanding
TimeoutStep(f) ==
    last'.op = "timer" /\ last'.f = f /\ last'.result = "timeout"

ThirdDupAckStep(f) ==
    /\ last'.op = "deliver" /\ last'.f = f
    /\ flow[f].state /= "FAST_RECOVERY"
    /\ flow[f].dup_ack_count = 2
    /\ flow'[f].last_ack = flow[f].last_ack
    /\ flow'[f].next_seq - 1 = flow[f].last_ack

\* C6 as stated: the third duplicate ACK leaves ssthresh = max(c/2, 1),
\* cwnd = ssthresh + 3 and state FAST_RECOVERY.
C6_Original ==
    [][\A f \in DOMAIN flow :
         (IsReno(f) /\ ThirdDupAckStep(f)) =>
            /\ 2 * flow'[f].ssthresh = Max(flow[f].cwnd, 2)
            /\ flow'[f].cwnd = flow'[f].ssthresh + 3
            /\ flow'[f].state = "FAST_RECOVERY"]_vars

\* C6 amended: the third duplicate ACK leaves ssthresh = max(floor(c/2), 1),
\* cwnd = ssthresh + 3 and state FAST_RECOVERY.
C6_RenoFastRetransmit ==
    [][\A f \in DOMAIN flow :
         (IsReno(f) /\ ThirdDupAckStep(f)) =>
            /\ flow'[f].ssthresh = Max(flow[f].cwnd \div 2, 1)
            /\ flow'[f].cwnd = flow'[f].ssthresh + 3
            /\ flow'[f].state = "FAST_RECOVERY"]_vars

\* fast recovery entered from an odd window
C6_Witness ==
    \E f \in DOMAIN flow :
       /\ IsReno(f) /\ last.op = "deliver" /\ last.f = f
       /\ last.old.state /= "FAST_RECOVERY"
       /\ flow[f].state = "FAST_RECOVERY"
       /\ last.old.cwnd = 5
       /\ flow[f].ssthresh = 2 /\ flow[f].cwnd = 5

NoLossEvent(f) ==
    ~Recorded(f, "TIMEOUT") /\ ~Recorded(f, "FAST_RECOVERY_ENTER")

\* C7: a new RenoFlow has cwnd 1, ssthresh 64, seq 0 and nothing unacked;
\* after k new ACKs and no loss reaction cwnd = min(1 + k, 64) while in
\* SLOW_START, and the flow is in CONGESTION_AVOID from the ACK on which
\* cwnd reaches ssthresh.
C7_RenoSlowStart ==
    \A f \in DOMAIN flow :
       IsReno(f) =>
          /\ last.op = "construct" =>
                /\ flow[f].cwnd = 1 /\ flow[f].ssthresh = 64
                /\ flow[f].seq = 0 /\ Outstanding(f) = {}
          /\ NoLossEvent(f) =>
                /\ flow[f].state = "SLOW_START" =>
                      flow[f].cwnd = Min(1 + flow[f].new_acks, 64)
                /\ flow[f].state = "SLOW_START" <=> 1 + flow[f].new_acks < 64
                /\ flow[f].state = "CONGESTION_AVOID" <=>
                      1 + flow[f].new_acks >= 64

\* the ACK on which cwnd reaches ssthresh
C7_Witness ==
    \E f \in DOMAIN flow :
       /\ IsReno(f) /\ NoLossEvent(f)
       /\ last.op = "deliver" /\ last.f = f
       /\ flow[f].new_acks = 63 /\ flow[f].cwnd = 64
       /\ flow[f].state = "CONGESTION_AVOID"

\* the W_cubic of the latest cubic update of flow f
CubicTarget(f) ==
    WCubic((((now - flow[f].epoch_start) * CubicTimeScale) \div TicksPerSec)
              - flow[f].K,
           flow[f].W_max)

LossReactionStep(f) ==
    \/ TimeoutStep(f)
    \/ /\ last'.op = "deliver" /\ last'.f = f
       /\ flow[f].state /= "FAST_RECOVERY"
       /\ flow'[f].state = "FAST_RECOVERY"

\* C8: a CubicFlow's cwnd goes down only in a loss reaction (timeout or
\* fast-retransmit entry), every other delivery leaves it the same or
\* larger, and the cubic target W_cubic is never below 1.0.
C8_CubicMonotone ==
    /\ [](\A f \in DOMAIN flow :
            (IsCubic(f) /\ last.op = "deliver" /\ last.f = f
               /\ flow[f].epoch_start /= None) =>
                 CubicTarget(f) >= 1 * WScale)
    /\ [][\A f \in DOMAIN flow :
            IsCubic(f) =>
               /\ flow'[f].cwnd < flow[f].cwnd => LossReactionStep(f)
               /\ (last'.op = "deliver" /\ ~LossReactionStep(f)) =>
                     flow'[f].cwnd >= flow[f].cwnd]_vars

\* a new ACK in CUBIC_CA whose cubic target lies below the current window
C8_Witness ==
    \E f \in DOMAIN flow :
       /\ IsCubic(f) /\ last.op = "deliver" /\ last.f = f
       /\ last.old.state = "CUBIC_CA"
       /\ Len(last.log) > 0 /\ last.log[1] = "rtt_sample"
       /\ flow[f].epoch_start /= None
       /\ CubicTarget(f) < flow[f].cwnd
       /\ flow[f].cwnd = last.old.cwnd

CAName(f) == IF IsCubic(f) THEN "CUBIC_CA" ELSE "CONGESTION_AVOID"

\* C9 as stated: the state changes only SLOW_START -> CA, CA ->
\* FAST_RECOVERY, FAST_RECOVERY -> CA, and any state -> SLOW_START on a
\* timeout with packets outstanding.
C9_Original ==
    [][\A f \in DOMAIN flow :
         flow'[f].state /= flow[f].state =>
            \/ flow[f].state = "SLOW_START" /\ flow'[f].state = CAName(f)
            \/ flow[f].state = CAName(f) /\ flow'[f].state = "FAST_RECOVERY"
            \/ flow[f].state = "FAST_RECOVERY" /\ flow'[f].state = CAName(f)
            \/ /\ flow'[f].state = "SLOW_START"
               /\ TimeoutStep(f) /\ Outstanding(f) /= {}]_vars

\* C9 amended: as stated, plus the edge SLOW_START -> FAST_RECOVERY taken by
\* a third duplicate ACK that arrives during slow start.
C9_StateEdges ==
    [][\A f \in DOMAIN flow :
         flow'[f].state /= flow[f].state =>
            \/ flow[f].state = "SLOW_START" /\ flow'[f].state = CAName(f)
            \/ /\ flow[f].state \in {"SLOW_START", CAName(f)}
               /\ flow'[f].state = "FAST_RECOVERY"
               /\ last'.op = "deliver" /\ flow'[f].last_ack = flow[f].last_ack
            \/ flow[f].state = "FAST_RECOVERY" /\ flow'[f].state = CAName(f)
            \/ /\ flow'[f].state = "SLOW_START"
               /\ TimeoutStep(f) /\ Outstanding(f) /= {}]_vars

\* fast recovery entered straight from slow start
C9_Witness ==
    \E f \in DOMAIN flow :
       /\ last.op = "deliver" /\ last.f = f
       /\ last.old.state = "SLOW_START"
       /\ flow[f].state = "FAST_RECOVERY"

\* t1 - t0 = size_bytes * 8 / (bandwidth_mbps * 1e6) + prop_delay, exactly
ExactLinkDelay(t0, t1, pkt) ==
    (t1 - t0 - cfg.prop_delay) * (cfg.bandwidth_mbps * 1000000)
       = pkt.size * 8 * TicksPerSec

TransmissionTest == cfg.test_pkts = <<1000>>

\* C10: the link hands a packet to its flow exactly size_bytes * 8 /
\* (bandwidth_mbps * 1e6) + prop_delay after dequeuing it and not before,
\* which for a packet admitted to an idle link with an empty queue is that
\* long after its admission; at 10 Mbps and 0.1 s a 1000-byte packet
\* enqueued at time 0 arrives once, at 0.1008 s.
C10_LinkDelay ==
    /\ [](linkBusy.pkt /= NoPkt =>
            now - linkBusy.since <= LinkDelay(cfg, linkBusy.pkt))
    /\ [](TransmissionTest =>
            /\ now * 10000 < 1008 * TicksPerSec => flow[1].received = <<>>
            /\ Finished =>
                 flow[1].received = << <<1, (1008 * TicksPerSec) \div 10000>> >>)
    /\ [][last'.op = "deliver" =>
            /\ last'.pkt = linkBusy.pkt
            /\ ExactLinkDelay(linkBusy.since, now', linkBusy.pkt)
            /\ linkBusy.pkt.idle =>
                  ExactLinkDelay(linkBusy.pkt.enq, now', linkBusy.pkt)]_vars

\* the 1000-byte test packet has arrived
C10_Witness ==
    /\ TransmissionTest /\ last.op = "deliver"
    /\ last.pkt.idle /\ last.pkt.enq = 0
    /\ flow[1].received = << <<1, 1008>> >>

\* C11: the link delivers packets in the order in which they were admitted
\* to its queue: the k-th delivery hands over the k-th admitted packet,
\* whatever the mix of flows, new sends and retransmissions.
C11_FifoDelivery ==
    /\ [](hist.delivered <= hist.admitted)
    /\ [][last'.op = "deliver" =>
            last'.pkt.adm = hist.delivered + 1]_vars

\* a delivery while the queue holds a retransmission ahead of a later
\* sequence number's first copy and behind an earlier admission
C11_Witness ==
    /\ last.op = "deliver" /\ hist.delivered >= 3
    /\ last.pkt.adm = hist.delivered
    /\ Len(queue) >= 2
    /\ queue[1].seq > queue[2].seq
    /\ queue[1].adm < queue[2].adm

\* the dequeued packets awaiting delivery: held by a fired or pending get,
\* or in their tx_time + prop_delay wait
InLink == {i \in 1..Len(evq) : evq[i].kind \in {"link_get", "link_tx"}}

\* C12: the link serializes transmissions: at most one dequeued packet
\* awaits delivery, a packet starts its transmission only when none is in
\* transmission, and two consecutive deliveries are at least the later
\* packet's size_bytes * 8 / (bandwidth_mbps * 1e6) + prop_delay apart.
C12_LinkSerialized ==
    /\ [](Cardinality(InLink) <= 1)
    /\ [][last'.op = "link_transmit" => linkBusy.pkt = NoPkt]_vars
    /\ [][(last'.op = "deliver" /\ hist.delivered >= 1) =>
            (now' - hist.deliveredAt - cfg.prop_delay)
                * (cfg.bandwidth_mbps * (1000000 \div TicksPerSec))
              >= last'.pkt.size * 8]_vars

\* a delivery after which the next queued packet is dequeued at once
C12_Witness ==
    /\ last.op = "deliver" /\ hist.delivered >= 2
    /\ queue /= <<>>
    /\ \E i \in InLink : evq[i].kind = "link_get" /\ evq[i].time = now

BurstRun ==
    /\ cfg.variants = <<"dummy">> /\ cfg.loss.type = "none"
    /\ Len(cfg.test_pkts) > cfg.queue_size

\* C13: of M > N enqueue attempts started at the same instant on an idle
\* link of capacity N without loss module, exactly the first N in creation
\* order are admitted and return True, and every later one returns False.
C13_BurstAdmission ==
    BurstRun =>
      /\ last.op = "enqueue" =>
            (last.result = "admitted" <=> last.pkt.seq <= cfg.queue_size)
      /\ last.op = "proc_end" =>
            (last.result = "True" <=> last.pkt.seq <= cfg.queue_size)
      /\ Finished =>
            /\ hist.attempts = Len(cfg.test_pkts)
            /\ hist.admitted = cfg.queue_size
            /\ hist.delivered = cfg.queue_size

\* the test's case: the third of three attempts on a queue of two returns
\* False at time 0
C13_Witness ==
    /\ BurstRun /\ cfg.queue_size = 2 /\ Len(cfg.test_pkts) = 3
    /\ now = 0 /\ hist.admitted = 2
    /\ last.op = "proc_end" /\ last.pkt.seq = 3 /\ last.result = "False"

\* C14: the sender ends exactly when it finds seq >= num_packets and unacked
\* empty; SENDER_DONE is recorded only with all num_packets sequence numbers
\* cumulatively acknowledged, and once it is recorded the sender of that flow
\* never runs again: no second SENDER_DONE and no further packet.
C14_SenderDone ==
    /\ [](\A f \in DOMAIN flow :
            Recorded(f, "SENDER_DONE") =>
               /\ flow[f].seq = cfg.num_packets
               /\ Outstanding(f) = {}
               /\ flow[f].last_ack = cfg.num_packets - 1)
    /\ [][\A f \in DOMAIN flow :
            /\ (last'.op = "sender" /\ last'.f = f) =>
                  (last'.result = "done" <=>
                     (flow[f].seq >= cfg.num_packets /\ Outstanding(f) = {}))
            /\ (last'.op = "sender" /\ last'.f = f /\ last'.result = "done")
                  => (~Recorded(f, "SENDER_DONE") /\ Recorded(f, "SENDER_DONE")')
            /\ Recorded(f, "SENDER_DONE") =>
                  /\ ~(last'.op = "sender" /\ last'.f = f)
                  /\ flow'[f].seq = flow[f].seq
                  /\ \A i \in 1..Len(evq') :
                        evq'[i].kind \in {"sender_init", "sender_pace"}
                           => evq'[i].f /= f]_vars

\* the sender has ended after a run with a timeout, and the run goes on
C14_Witness ==
    \E f \in DOMAIN flow :
       /\ Recorded(f, "SENDER_DONE") /\ last.op /= "sender"
       /\ (Recorded(f, "TIMEOUT") \/ Recorded(f, "TIMEOUT_CUBIC"))
       /\ flow[f].last_ack = cfg.num_packets - 1
       /\ cfg.num_packets >= 3

\* the names under which flow f records a fast-retransmit entry and the
\* no-candidate diagnostic
EnterName(f) ==
    IF IsCubic(f) THEN "FAST_RECOVERY_ENTER_CUBIC" ELSE "FAST_RECOVERY_ENTER"
NoCandidateName(f) ==
    IF IsCubic(f) THEN "FAST_RETX_NO_CANDIDATE"
    ELSE "FAST_RETRANSMIT_NO_CANDIDATE"

\* the link.enqueue processes started and not yet run
StartedEnqueues(q) == {i \in 1..Len(q) : q[i].kind = "enq_init"}

\* C16 as stated: a fast retransmit attempted while unacked is empty aborts
\* the run, so no step completes the handler in that situation.
C16_Original ==
    [][\A f \in DOMAIN flow :
         ~(ThirdDupAckStep(f) /\ Outstanding(f) = {})]_vars

\* C16 amended: a fast retransmit attempted while unacked is empty completes
\* normally: the flow enters FAST_RECOVERY, the entry and the no-candidate
\* diagnostic are recorded, nothing is retransmitted and the run goes on.
C16_EmptyUnackedTolerated ==
    [][\A f \in DOMAIN flow :
         (ThirdDupAckStep(f) /\ Outstanding(f) = {}) =>
            /\ flow'[f].state = "FAST_RECOVERY"
            /\ last'.log = <<EnterName(f), NoCandidateName(f)>>
            /\ Recorded(f, NoCandidateName(f))'
            /\ Outstanding(f)' = {}
            /\ Cardinality(StartedEnqueues(evq'))
                  = Cardinality(StartedEnqueues(evq))
            /\ evq' /= <<>>]_vars

\* the handler has returned with unacked empty, and the run goes on
C16_Witness ==
    \E f \in DOMAIN flow :
       /\ last.op = "deliver" /\ last.f = f
       /\ last.log = <<EnterName(f), NoCandidateName(f)>>
       /\ Outstanding(f) = {}
       /\ flow[f].state = "FAST_RECOVERY"
       /\ CanStep

\* a third duplicate ACK whose fast retransmit finds no unacked sequence
\* number above the duplicated ACK value
NoCandidateStep(f) ==
    /\ ThirdDupAckStep(f)
    /\ {s \in Outstanding(f) : s > flow[f].last_ack} = {}

\* C17 as stated: without a candidate the fast retransmit records the
\* diagnostic and is a no-op: nothing re-admitted, no send_time changed, and
\* cwnd, ssthresh and state as before.
C17_Original ==
    [][\A f \in DOMAIN flow :
         NoCandidateStep(f) =>
            /\ Recorded(f, NoCandidateName(f))'
            /\ Cardinality(StartedEnqueues(evq'))
                  = Cardinality(StartedEnqueues(evq))
            /\ flow'[f].unacked = flow[f].unacked
            /\ flow'[f].cwnd = flow[f].cwnd
            /\ flow'[f].ssthresh = flow[f].ssthresh
            /\ flow'[f].state = flow[f].state]_vars

\* C17 amended: without a candidate the fast retransmit records the
\* diagnostic, re-admits nothing and changes no send_time, but the loss
\* reaction made before the search stands: state FAST_RECOVERY and the
\* reduced window (Reno: ssthresh = max(c // 2, 1), cwnd = ssthresh + 3;
\* Cubic: W_max = c, cwnd = ssthresh = max(c * beta, 1.0)).
C17_NoCandidate ==
    [][\A f \in DOMAIN flow :
         NoCandidateStep(f) =>
            /\ last'.log = <<EnterName(f), NoCandidateName(f)>>
            /\ Recorded(f, NoCandidateName(f))'
            /\ Cardinality(StartedEnqueues(evq'))
                  = Cardinality(StartedEnqueues(evq))
            /\ flow'[f].unacked = flow[f].unacked
            /\ flow'[f].state = "FAST_RECOVERY"
            /\ IsReno(f) =>
                  /\ flow'[f].ssthresh = Max(flow[f].cwnd \div 2, 1)
                  /\ flow'[f].cwnd = flow'[f].ssthresh + 3
            /\ IsCubic(f) =>
                  /\ flow'[f].W_max = flow[f].cwnd
                  /\ flow'[f].cwnd =
                        Max((flow[f].cwnd * CubicBeta.num) \div CubicBeta.den,
                            1 * WScale)
                  /\ flow'[f].ssthresh = flow'[f].cwnd]_vars

\* a no-candidate fast retransmit that left the window changed
C17_Witness ==
    \E f \in DOMAIN flow :
       /\ last.op = "deliver" /\ last.f = f
       /\ Len(last.log) = 2 /\ last.log[2] = NoCandidateName(f)
       /\ last.old.state /= "FAST_RECOVERY"
       /\ flow[f].state = "FAST_RECOVERY"
       /\ flow[f].cwnd /= last.old.cwnd
       /\ StartedEnqueues(evq) = {}

ToggleRun ==
    /\ cfg.loss.type = "bursty"
    /\ cfg.loss.avg_good_duration = 1 /\ cfg.loss.avg_bad_duration = 1

\* C18: with a loss module every admission attempt calls should_drop once,
\* before the capacity test: its answer decides also when the queue is full,
\* the BurstyLoss state takes one update step per attempt whatever the
\* outcome (with mean sojourn 1 it flips once per attempt), and it changes
\* at no other time.
C18_LossModuleOncePerAttempt ==
    /\ [](ToggleRun => (lossState = "GOOD" <=> hist.attempts % 2 = 0))
    /\ []((last.op = "enqueue" /\ cfg.loss.type /= "none" /\ last.drop)
            => last.result = "loss")
    /\ [][/\ lossState' /= lossState => last'.op = "enqueue"
          /\ hist'.attempts /= hist.attempts <=> last'.op = "enqueue"]_vars

\* an attempt that found the queue full still advanced the loss state
C18_Witness ==
    /\ ToggleRun /\ last.op = "enqueue" /\ last.result = "full"
    /\ hist.attempts >= 2 /\ hist.attempts % 2 = 0
    /\ lossState = "GOOD"

\* flow f holds an unacked sequence number above its last cumulative ACK
HasCandidate(f) == {s \in Outstanding(f) : s > flow[f].last_ack} /= {}

\* C19 as stated: Reno and Cubic record their loss reactions under the same
\* names: TIMEOUT then RETRANSMIT_TIMEOUT, and FAST_RECOVERY_ENTER then
\* FAST_RETRANSMIT or FAST_RETRANSMIT_NO_CANDIDATE.
C19_Original ==
    [][\A f \in DOMAIN flow :
         /\ TimeoutStep(f) =>
               last'.log = <<"TIMEOUT", "RETRANSMIT_TIMEOUT">>
         /\ ThirdDupAckStep(f) =>
               \/ last'.log = <<"FAST_RECOVERY_ENTER", "FAST_RETRANSMIT">>
               \/ last'.log = <<"FAST_RECOVERY_ENTER",
                                "FAST_RETRANSMIT_NO_CANDIDATE">>]_vars

\* C19 amended: each variant has its own names.  Reno: TIMEOUT then
\* RETRANSMIT_TIMEOUT; FAST_RECOVERY_ENTER then FAST_RETRANSMIT or
\* FAST_RETRANSMIT_NO_CANDIDATE.  Cubic: TIMEOUT_CUBIC then
\* RETRANSMIT_TIMEOUT; FAST_RECOVERY_ENTER_CUBIC then FAST_RETRANSMIT_CUBIC
\* or FAST_RETX_NO_CANDIDATE.
C19_EventNames ==
    [][\A f \in DOMAIN flow :
         /\ TimeoutStep(f) =>
               /\ last'.log = <<IF IsCubic(f) THEN "TIMEOUT_CUBIC"
                                ELSE "TIMEOUT",
                                "RETRANSMIT_TIMEOUT">>
               /\ \A i \in 1..2 : <<f, last'.log[i]>> \in sink'
         /\ ThirdDupAckStep(f) =>
               /\ last'.log =
                     <<EnterName(f),
                       IF HasCandidate(f)
                       THEN (IF IsCubic(f) THEN "FAST_RETRANSMIT_CUBIC"
                             ELSE "FAST_RETRANSMIT")
                       ELSE NoCandidateName(f)>>
               /\ \A i \in 1..2 : <<f, last'.log[i]>> \in sink']_vars

\* a Cubic flow that has recorded a timeout and a fast retransmit
C19_Witness ==
    \E f \in DOMAIN flow :
       /\ IsCubic(f)
       /\ Recorded(f, "TIMEOUT_CUBIC") /\ Recorded(f, "RETRANSMIT_TIMEOUT")
       /\ last.op = "deliver" /\ last.f = f
       /\ last.log = <<"FAST_RECOVERY_ENTER_CUBIC", "FAST_RETRANSMIT_CUBIC">>

SendingTest == cfg \in RenoTestConfigs

\* C20: the sender puts a packet into unacked with send_time = now before
\* its admission is attempted; the packet stays there, whatever the
\* admission result, until a new ACK with ack_seq >= its seq removes it; a
\* flow that has sent has unacked non-empty until the first delivery (the
\* test looks at t = 0.01 s).
C20_UnackedLifetime ==
    /\ [](\A f \in DOMAIN flow :
            /\ \A s \in Outstanding(f) :
                  s > flow[f].last_ack /\ s < flow[f].seq
                     /\ flow[f].unacked[s] <= now
            /\ (flow[f].seq > 0 /\ flow[f].received_seqs = {})
                  => Outstanding(f) /= {})
    /\ []((SendingTest /\ now * 100 >= TicksPerSec) => Outstanding(1) /= {})
    /\ [][\A f \in DOMAIN flow :
            /\ (last'.op = "sender" /\ last'.f = f /\ last'.result = "sent") =>
                  /\ last'.pkt.seq = flow[f].seq
                  /\ last'.pkt.seq \in Outstanding(f)'
                  /\ flow'[f].unacked[last'.pkt.seq] = now'
                  /\ hist'.attempts = hist.attempts
                  /\ \E i \in StartedEnqueues(evq') :
                        evq'[i].pkt.flow = f /\ evq'[i].pkt.seq = last'.pkt.seq
            /\ last'.op \in {"enqueue", "put", "proc_end"} =>
                  flow'[f] = flow[f]
            /\ \A s \in Outstanding(f) \ Outstanding(f)' :
                  /\ last'.op = "deliver" /\ last'.f = f
                  /\ flow'[f].last_ack > flow[f].last_ack
                  /\ flow'[f].last_ack >= s]_vars

\* a packet whose admission was refused is still in unacked
C20_Witness ==
    \E f \in DOMAIN flow :
       /\ flow[f].variant /= "dummy"
       /\ last.op = "proc_end" /\ last.result = "False"
       /\ last.pkt.flow = f /\ last.pkt.seq \in Outstanding(f)
       /\ flow[f].unacked[last.pkt.seq] = now

\* len(unacked) < floor(cwnd) for the flow object fl
WindowRoom(fl) ==
    Cardinality(DOMAIN fl.unacked)
       < (IF fl.variant = "cubic" THEN fl.cwnd \div WScale ELSE fl.cwnd)

\* a step at which the sender of flow f suspends for the pacing interval:
\* directly, or on resuming from the admission attempt it waited for
PacingStep(f) ==
    \/ last'.op = "sender" /\ last'.f = f /\ last'.result = "paced"
    \/ last'.op = "proc_end" /\ last'.f = f

\* the pending resumptions of the sender of flow f
SenderEvents(q, f) ==
    {i \in 1..Len(q) :
        q[i].kind \in {"sender_init", "sender_pace"} /\ q[i].f = f}

\* C21 as stated: the sender submits packets one after another while
\* len(unacked) < floor(cwnd) and seq < num_packets, so at every suspension
\* for pacing len(unacked) >= floor(cwnd) or seq >= num_packets.
C21_Original ==
    [][\A f \in DOMAIN flow :
         PacingStep(f) =>
            (~WindowRoom(flow'[f]) \/ flow'[f].seq >= cfg.num_packets)]_vars

\* C21 amended: a run of the sender that is not terminal creates at most
\* one packet, and only with len(unacked) < floor(cwnd) and
\* seq < num_packets; it waits for that admission attempt to return and
\* then suspends for the pacing interval, whatever room the window has left.
C21_OnePacketPerPacing ==
    [][\A f \in DOMAIN flow :
         /\ flow'[f].seq \in {flow[f].seq, flow[f].seq + 1}
         /\ flow'[f].seq = flow[f].seq + 1 =>
               /\ last'.op = "sender" /\ last'.f = f
               /\ WindowRoom(flow[f]) /\ flow[f].seq < cfg.num_packets
               /\ SenderEvents(evq', f) = {}
         /\ (last'.op = "sender" /\ last'.f = f /\ last'.result /= "done") =>
               (flow'[f].seq = flow[f].seq + 1
                  <=> (WindowRoom(flow[f]) /\ flow[f].seq < cfg.num_packets))
         /\ PacingStep(f) =>
               /\ Cardinality(SenderEvents(evq', f)) = 1
               /\ \A i \in SenderEvents(evq', f) :
                     evq'[i].time = now' + PacingTicks]_vars

\* the sender suspends for pacing with room left in the window and packets
\* left to send
C21_Witness ==
    \E f \in DOMAIN flow :
       /\ last.op = "proc_end" /\ last.f = f
       /\ WindowRoom(flow[f]) /\ flow[f].seq < cfg.num_packets
       /\ Cardinality(SenderEvents(evq, f)) = 1

\* the names a timeout handler records
TimeoutNames == {"TIMEOUT", "TIMEOUT_CUBIC", "RETRANSMIT_TIMEOUT"}

\* the retransmission timer's period, rto / 2
TimerPeriod == cfg.rto \div 2

\* C22, first part: the timer wakes at every multiple of rto/2 and at a
\* wake-up invokes timeout handling if and only if unacked is non-empty and
\* the smallest send_time in unacked is at least rto old; timeout handling
\* is invoked at no other step.
C22_TimerSteps ==
    \A f \in DOMAIN flow :
       /\ (last'.op = "timer" /\ last'.f = f) =>
             /\ now' > 0 /\ now' % TimerPeriod = 0
             /\ \E i \in 1..Len(evq') :
                   /\ evq'[i].kind = "timer_tick" /\ evq'[i].f = f
                   /\ evq'[i].time = now' + TimerPeriod
             /\ TimeoutStep(f) <=>
                   /\ Outstanding(f) /= {}
                   /\ \E s \in Outstanding(f) :
                         now' - flow[f].unacked[s] >= cfg.rto
             /\ TimeoutStep(f) <=>
                   \E i \in 1..Len(last'.log) : last'.log[i] \in TimeoutNames
       /\ (\/ flow'[f].timeout_at /= flow[f].timeout_at
           \/ /\ last'.f = f
              /\ \E i \in 1..Len(last'.log) : last'.log[i] \in TimeoutNames)
          => (TimeoutStep(f) /\ flow'[f].timeout_at = now')
       \* the first invocation at or after send_time + rto comes before
       \* send_time + 1.5 rto
       /\ TimeoutStep(f) =>
             \A s \in Outstanding(f) :
                now' - flow[f].unacked[s] >= cfg.rto =>
                   \/ 2 * (now' - flow[f].unacked[s]) < 3 * cfg.rto
                   \/ /\ flow[f].timeout_at /= None
                      /\ flow[f].timeout_at >= flow[f].unacked[s] + cfg.rto

\* C22, second part: a packet that is still in unacked 1.5 rto after its
\* send_time has had timeout handling invoked at or after send_time + rto.
C22_TimeoutDue ==
    \A f \in DOMAIN flow : \A s \in Outstanding(f) :
       2 * (now - flow[f].unacked[s]) >= 3 * cfg.rto =>
          /\ flow[f].timeout_at /= None
          /\ flow[f].timeout_at >= flow[f].unacked[s] + cfg.rto

\* C22: the timer wakes every rto/2 and invokes timeout handling exactly
\* when unacked is non-empty and the oldest send_time is at least rto old,
\* at no other instant, and within 1.5 rto of the send_time of a packet that
\* stays unacked with that send_time.
C22_TimerRule == [][C22_TimerSteps]_vars /\ []C22_TimeoutDue

\* a timeout invoked while a packet younger than rto and a packet older
\* than 1.5 rto are both outstanding
C22_Witness ==
    \E f \in DOMAIN flow :
       /\ last.op = "timer" /\ last.f = f /\ last.result = "timeout"
       /\ flow[f].timeout_at = now
       /\ \E s \in Outstanding(f) :
             /\ flow[f].unacked[s] < now
             /\ now - flow[f].unacked[s] < cfg.rto
       /\ \E s \in Outstanding(f) :
             2 * (now - flow[f].unacked[s]) >= 3 * cfg.rto

\* a step at which the arrival handler of flow f runs
ArrivalStep(f) ==
    last'.op = "deliver" /\ last'.f = f /\ flow[f].variant /= "dummy"

\* next_seq is the smallest sequence number not in received_seqs
C23_FirstMissing ==
    \A f \in DOMAIN flow :
       flow[f].variant /= "dummy" =>
          /\ flow[f].next_seq \notin flow[f].received_seqs
          /\ \A k \in 0..(flow[f].next_seq - 1) : k \in flow[f].received_seqs

\* next_seq never decreases; an arrival records the packet's sequence
\* number and acknowledges next_seq - 1
C23_ArrivalSteps ==
    \A f \in DOMAIN flow :
       /\ flow'[f].next_seq >= flow[f].next_seq
       /\ ArrivalStep(f) =>
             /\ flow'[f].received_seqs =
                   flow[f].received_seqs \cup {last'.pkt.seq}
             /\ last'.ack = flow'[f].next_seq - 1
       /\ ~ArrivalStep(f) =>
             /\ flow'[f].next_seq = flow[f].next_seq
             /\ flow'[f].received_seqs = flow[f].received_seqs

\* C23: after every arrival next_seq is the smallest sequence number not in
\* received_seqs, next_seq never decreases, and the ACK value of the
\* arrival is next_seq - 1, whatever the order of arrivals.
C23_Receiver == []C23_FirstMissing /\ [][C23_ArrivalSteps]_vars

\* a retransmitted packet arrives after later ones and fills the gap, in a
\* run where some packet has also arrived twice
C23_Witness ==
    /\ last.op = "deliver" /\ DOMAIN flow = {1}
    /\ flow[1].variant /= "dummy"
    /\ last.ack = flow[1].next_seq - 1
    /\ last.ack > last.pkt.seq
    /\ flow[1].last_ack = last.ack
    /\ \E i \in 1..Len(last.log) : last.log[i] = "rtt_sample"
    /\ Cardinality(flow[1].received_seqs) < hist.delivered

\* an arrival whose ACK value is above last_ack: a new ACK
NewAckStep(f) == ArrivalStep(f) /\ last'.ack > flow[f].last_ack

\* C24: a new ACK removes from unacked exactly the entries with
\* seq <= ack_seq, resets dup_ack_count to 0 and sets last_ack to ack_seq;
\* a flow that was in FAST_RECOVERY is in its CA state afterwards.
C24_NewAck ==
    [][\A f \in DOMAIN flow :
         NewAckStep(f) =>
            /\ DOMAIN flow'[f].unacked =
                  {s \in Outstanding(f) : s > last'.ack}
            /\ \A s \in DOMAIN flow'[f].unacked :
                  flow'[f].unacked[s] = flow[f].unacked[s]
            /\ flow'[f].dup_ack_count = 0
            /\ flow'[f].last_ack = last'.ack
            /\ flow[f].state = "FAST_RECOVERY" => flow'[f].state = CAName(f)]_vars

\* a new ACK received in FAST_RECOVERY after duplicate ACKs removes two or
\* more entries and leaves a later one in unacked
C24_Witness ==
    \E f \in DOMAIN flow :
       /\ last.op = "deliver" /\ last.f = f
       /\ last.old.state = "FAST_RECOVERY"
       /\ flow[f].state = CAName(f)
       /\ flow[f].last_ack = last.ack /\ flow[f].dup_ack_count = 0
       /\ Len(last.log) >= 3
       /\ last.log[1] = "rtt_sample" /\ last.log[2] = "rtt_sample"
       /\ \E s \in Outstanding(f) : s > last.ack

\* an arrival whose ACK value equals last_ack: a duplicate ACK
DupAckStep(f) == ArrivalStep(f) /\ last'.ack = flow[f].last_ack

\* the step runs the fast-retransmit handler of flow f
FastRetransmitStep(f) ==
    /\ last'.f = f
    /\ \E i \in 1..Len(last'.log) : last'.log[i] = EnterName(f)

\* the number of link.enqueue processes the step started
EnqueuesStarted ==
    Cardinality(StartedEnqueues(evq')) - Cardinality(StartedEnqueues(evq))

\* one packet of window, in the unit cwnd is kept in
OnePacket(f) == IF IsCubic(f) THEN 1 * WScale ELSE 1

\* what C25 says of a duplicate ACK apart from the value of dup_ack_count
C25_DupAckEffects(f) ==
    /\ FastRetransmitStep(f) <=>
          (flow[f].dup_ack_count + 1 = 3 /\ flow[f].state /= "FAST_RECOVERY")
    /\ flow[f].state = "FAST_RECOVERY" =>
          /\ flow'[f].cwnd = flow[f].cwnd + OnePacket(f)
          /\ flow'[f].state = "FAST_RECOVERY"
          /\ flow'[f].ssthresh = flow[f].ssthresh
          /\ flow'[f].unacked = flow[f].unacked
          /\ EnqueuesStarted = 0
    /\ ~FastRetransmitStep(f) => EnqueuesStarted = 0
    /\ (~FastRetransmitStep(f) /\ flow[f].state /= "FAST_RECOVERY") =>
          /\ flow'[f].cwnd = flow[f].cwnd
          /\ flow'[f].state = flow[f].state

\* C25 as stated: every duplicate ACK leaves dup_ack_count one higher; fast
\* retransmit is triggered exactly at count 3 outside FAST_RECOVERY; in
\* FAST_RECOVERY the duplicate ACK adds 1 to cwnd and retransmits nothing.
C25_Original ==
    [][\A f \in DOMAIN flow :
         DupAckStep(f) =>
            /\ flow'[f].dup_ack_count = flow[f].dup_ack_count + 1
            /\ C25_DupAckEffects(f)]_vars

\* C25 amended: as stated, except that the Cubic fast retransmit triggered
\* by the third duplicate ACK sets dup_ack_count back to 0.
C25_DupAck ==
    [][\A f \in DOMAIN flow :
         DupAckStep(f) =>
            /\ flow'[f].dup_ack_count =
                  IF IsCubic(f) /\ FastRetransmitStep(f) THEN 0
                  ELSE flow[f].dup_ack_count + 1
            /\ C25_DupAckEffects(f)]_vars

\* the third duplicate ACK of a Cubic flow: fast retransmit has run and
\* dup_ack_count is 0
C25_Witness ==
    \E f \in DOMAIN flow :
       /\ IsCubic(f) /\ last.op = "deliver" /\ last.f = f
       /\ last.ack = flow[f].last_ack
       /\ last.old.state /= "FAST_RECOVERY"
       /\ flow[f].state = "FAST_RECOVERY"
       /\ \E i \in 1..Len(last.log) : last.log[i] = EnterName(f)
       /\ flow[f].dup_ack_count = 0

\* C26: a stale ACK (ack_seq < last_ack) changes no field of the flow,
\* records nothing and starts no retransmission.
C26_StaleAckIgnored ==
    [][\A f \in DOMAIN flow :
         (last'.op = "on_ack" /\ last'.f = f
            /\ last'.ack < flow[f].last_ack) =>
            /\ flow'[f] = flow[f]
            /\ last'.log = <<>> /\ sink' = sink
            /\ EnqueuesStarted = 0]_vars

\* a stale ACK handled with packets outstanding, after duplicate ACKs
C26_Witness ==
    \E f \in DOMAIN flow :
       /\ last.op = "on_ack" /\ last.f = f
       /\ last.ack < flow[f].last_ack
       /\ Outstanding(f) /= {}
       /\ flow[f].dup_ack_count > 0

\* C27: in CONGESTION_AVOID every new ACK of a Reno flow counts one; the
\* new ACK at which the count reaches cwnd adds exactly 1 to cwnd and
\* resets the count to 0, every other new ACK leaves cwnd unchanged.
C27_RenoCongestionAvoid ==
    [][\A f \in DOMAIN flow :
         (IsReno(f) /\ NewAckStep(f)
            /\ flow[f].state = "CONGESTION_AVOID") =>
            /\ flow'[f].state = "CONGESTION_AVOID"
            /\ flow'[f].ssthresh = flow[f].ssthresh
            /\ IF flow[f].ca_ack_count + 1 >= flow[f].cwnd
               THEN /\ flow'[f].cwnd = flow[f].cwnd + 1
                    /\ flow'[f].ca_ack_count = 0
               ELSE /\ flow'[f].cwnd = flow[f].cwnd
                    /\ flow'[f].ca_ack_count = flow[f].ca_ack_count + 1]_vars

\* a window of 3 or more grown by one in CONGESTION_AVOID, on the new ACK
\* that completes the count
C27_Witness ==
    \E f \in DOMAIN flow :
       /\ IsReno(f) /\ last.op = "deliver" /\ last.f = f
       /\ last.old.state = "CONGESTION_AVOID"
       /\ last.old.cwnd >= 3
       /\ flow[f].last_ack = last.ack
       /\ \E i \in 1..Len(last.log) : last.log[i] = "rtt_sample"
       /\ flow[f].cwnd = last.old.cwnd + 1
       /\ flow[f].ca_ack_count = 0

\* C28: the first new ACK a Reno flow receives in FAST_RECOVERY sets cwnd
\* to ssthresh and the state to CONGESTION_AVOID, whether or not it covers
\* every packet that was outstanding when the loss was detected.
C28_RenoRecoveryExit ==
    [][\A f \in DOMAIN flow :
         (IsReno(f) /\ NewAckStep(f) /\ flow[f].state = "FAST_RECOVERY") =>
            /\ flow'[f].cwnd = flow[f].ssthresh
            /\ flow'[f].ssthresh = flow[f].ssthresh
            /\ flow'[f].state = "CONGESTION_AVOID"]_vars

\* FAST_RECOVERY left on a partial ACK: the ACK is below the highest
\* sequence number sent before the loss was detected, and an inflated
\* window drops back to ssthresh
C28_Witness ==
    \E f \in DOMAIN flow :
       /\ IsReno(f) /\ last.op = "deliver" /\ last.f = f
       /\ last.old.state = "FAST_RECOVERY"
       /\ flow[f].state = "CONGESTION_AVOID"
       /\ flow[f].last_ack = last.ack
       /\ last.ack < flow[f].recover
       /\ last.old.cwnd > flow[f].ssthresh + 3
       /\ flow[f].cwnd = flow[f].ssthresh

\* the packets for which the step started a link.enqueue process
SubmittedSeqs ==
    {evq'[i].pkt.seq : i \in {k \in StartedEnqueues(evq') :
                                  evq'[k].time = now'}}

\* C29: handle_timeout with unacked empty changes nothing and submits
\* nothing; with unacked non-empty it sets dup_ack_count to 0, sets the
\* send_time of the lowest-sequence unacked packet to now, submits exactly
\* that packet, and leaves the keys of unacked, seq and last_ack unchanged.
C29_TimeoutHandling ==
    [][\A f \in DOMAIN flow :
         (last'.op = "handle_timeout" /\ last'.f = f) =>
            IF Outstanding(f) = {}
            THEN /\ flow'[f] = flow[f]
                 /\ EnqueuesStarted = 0
                 /\ last'.log = <<>> /\ sink' = sink
            ELSE /\ flow'[f].dup_ack_count = 0
                 /\ DOMAIN flow'[f].unacked = Outstanding(f)
                 /\ \A s \in Outstanding(f) :
                       flow'[f].unacked[s] =
                          IF \A o \in Outstanding(f) : s <= o THEN now'
                          ELSE flow[f].unacked[s]
                 /\ EnqueuesStarted = 1
                 /\ SubmittedSeqs =
                       {s \in Outstanding(f) : \A o \in Outstanding(f) : s <= o}
                 /\ flow'[f].seq = flow[f].seq
                 /\ flow'[f].last_ack = flow[f].last_ack]_vars

\* a timeout handled with two packets outstanding: the lower one is
\* stamped now, the other keeps its earlier send_time
C29_Witness ==
    \E f \in DOMAIN flow :
       /\ last.op = "handle_timeout" /\ last.f = f
       /\ Len(last.log) = 2
       /\ \E s1, s2 \in Outstanding(f) :
             /\ s1 < s2
             /\ flow[f].unacked[s1] = now
             /\ flow[f].unacked[s2] < now
       /\ flow[f].dup_ack_count = 0

\* the unacked sequence numbers of flow f above the ACK value of the step
Candidates(f) == {s \in Outstanding(f) : s > last'.ack}

\* C30: fast retransmit stamps and submits exactly the unacked packet with
\* the smallest sequence number above the duplicated ACK value, and
\* submits nothing when there is none.
C30_FastRetransmitCandidate ==
    [][\A f \in DOMAIN flow :
         (DupAckStep(f) /\ FastRetransmitStep(f)) =>
            /\ DOMAIN flow'[f].unacked = Outstanding(f)
            /\ IF Candidates(f) = {}
               THEN /\ EnqueuesStarted = 0
                    /\ SubmittedSeqs = {}
                    /\ flow'[f].unacked = flow[f].unacked
               ELSE /\ EnqueuesStarted = 1
                    /\ SubmittedSeqs =
                          {s \in Candidates(f) :
                              \A o \in Candidates(f) : s <= o}
                    /\ \A s \in Outstanding(f) :
                          flow'[f].unacked[s] =
                             IF s \in SubmittedSeqs THEN now'
                             ELSE flow[f].unacked[s]]_vars

\* a fast retransmit with two or more packets above the duplicated ACK
\* value: the lowest is stamped now, a later one keeps its send_time
C30_Witness ==
    \E f \in DOMAIN flow :
       /\ last.op = "deliver" /\ last.f = f
       /\ last.ack = flow[f].last_ack
       /\ \E i \in 1..Len(last.log) : last.log[i] = EnterName(f)
       /\ \E s1, s2 \in Outstanding(f) :
             /\ last.ack < s1 /\ s1 < s2
             /\ \A o \in Outstanding(f) : s1 <= o
             /\ flow[f].unacked[s1] = now
             /\ flow[f].unacked[s2] < now

\* C31: a Cubic timeout with packets outstanding and a Cubic
\* fast-retransmit entry leave W_max = the cwnd before, cwnd =
\* max(0.7 * old cwnd, 1), ssthresh = the new cwnd and epoch_start = None;
\* the state is SLOW_START after the timeout, FAST_RECOVERY after the entry.
C31_CubicLossReaction ==
    [][\A f \in DOMAIN flow :
         (IsCubic(f)
            /\ (TimeoutStep(f) \/ (DupAckStep(f) /\ FastRetransmitStep(f)))) =>
            /\ flow'[f].W_max = flow[f].cwnd
            /\ flow'[f].cwnd =
                  Max((flow[f].cwnd * 7) \div 10, 1 * WScale)
            /\ flow'[f].ssthresh = flow'[f].cwnd
            /\ flow'[f].epoch_start = None
            /\ flow'[f].state =
                  IF TimeoutStep(f) THEN "SLOW_START" ELSE "FAST_RECOVERY"]_vars

\* a Cubic timeout taken at cwnd 1.0, where 0.7 * cwnd is below the floor
C31_Witness ==
    \E f \in DOMAIN flow :
       /\ IsCubic(f) /\ last.op = "timer" /\ last.f = f
       /\ last.result = "timeout"
       /\ last.old.cwnd = 1 * WScale
       /\ flow[f].W_max = 1 * WScale /\ flow[f].cwnd = 1 * WScale
       /\ flow[f].ssthresh = 1 * WScale
       /\ flow[f].state = "SLOW_START" /\ flow[f].epoch_start = None

\* C32: the keys of unacked are exactly last_ack + 1 .. seq - 1, so
\* len(unacked) = seq - 1 - last_ack.
C32_UnackedRange ==
    \A f \in DOMAIN flow :
       flow[f].variant /= "dummy" =>
          /\ Outstanding(f) = (flow[f].last_ack + 1)..(flow[f].seq - 1)
          /\ Cardinality(Outstanding(f)) = flow[f].seq - 1 - flow[f].last_ack

\* a new ACK has removed part of the window: two or more packets are still
\* unacknowledged above last_ack >= 0, one of them retransmitted
C32_Witness ==
    \E f \in DOMAIN flow :
       /\ last.op = "deliver" /\ last.f = f
       /\ flow[f].last_ack = last.ack /\ flow[f].last_ack >= 1
       /\ Cardinality(Outstanding(f)) >= 2
       /\ flow[f].timeout_at /= None
       /\ \E i \in 1..Len(last.log) : last.log[i] = "rtt_sample"

\* last_ack is the receiver's next_seq - 1
C33_LastAckInOrder ==
    \A f \in DOMAIN flow :
       flow[f].variant /= "dummy" =>
          flow[f].last_ack = flow[f].next_seq - 1

\* the ACK value of an arrival is never below last_ack, and last_ack never
\* decreases
C33_AckSteps ==
    \A f \in DOMAIN flow :
       /\ ArrivalStep(f) => last'.ack >= flow[f].last_ack
       /\ flow'[f].last_ack >= flow[f].last_ack

\* C33: every ACK value the arrival handler passes to on_ack is at least
\* last_ack, so no run takes the stale-ACK branch; last_ack never decreases
\* and is next_seq - 1 after every arrival.
C33_AckNeverBackwards == []C33_LastAckInOrder /\ [][C33_AckSteps]_vars

\* a late copy of a packet already acknowledged arrives: its sequence
\* number is below last_ack, the ACK value is last_ack
C33_Witness ==
    \E f \in DOMAIN flow :
       /\ last.op = "deliver" /\ last.f = f
       /\ flow[f].variant /= "dummy"
       /\ last.pkt.seq < flow[f].last_ack
       /\ last.ack = flow[f].last_ack
       /\ flow[f].dup_ack_count >= 1

\* a timeout reaction of flow f that follows an earlier one
LaterTimeoutStep(f) == TimeoutStep(f) /\ flow[f].timeout_at /= None

\* C34 as stated: two successive timeout reactions of one flow are at least
\* rto apart, even when several packets are outstanding.
C34_Original ==
    [][\A f \in DOMAIN flow :
         LaterTimeoutStep(f) =>
            now' - flow[f].timeout_at >= cfg.rto]_vars

\* C34 amended: two successive timeout reactions of one flow are at least
\* rto / 2 apart; one that comes less than rto after the previous one is due
\* to a packet sent before the previous one, still unacked and not
\* re-stamped by it.
C34_TimeoutSpacing ==
    [][\A f \in DOMAIN flow :
         LaterTimeoutStep(f) =>
            /\ 2 * (now' - flow[f].timeout_at) >= cfg.rto
            /\ now' - flow[f].timeout_at < cfg.rto =>
                  \E s \in Outstanding(f) :
                     /\ flow[f].unacked[s] < flow[f].timeout_at
                     /\ now' - flow[f].unacked[s] >= cfg.rto]_vars

\* a timeout reaction rto / 2 after the previous one, with two or more
\* packets outstanding
C34_Witness ==
    \E f \in DOMAIN flow :
       /\ last.op = "timer" /\ last.f = f /\ last.result = "timeout"
       /\ last.old.timeout_at /= None
       /\ 2 * (now - last.old.timeout_at) = cfg.rto
       /\ Cardinality(Outstanding(f)) >= 2

\* the queue entries of q for sequence number s of flow f
Copies(q, f, s) == {i \in 1..Len(q) : q[i].flow = f /\ q[i].seq = s}

\* C35 as stated: the link queue never holds two entries for the same flow
\* and sequence number.
C35_Original ==
    \A i, j \in 1..Len(queue) :
       (queue[i].flow = queue[j].flow /\ queue[i].seq = queue[j].seq) => i = j

\* C35 amended: a second entry for a flow and sequence number enters the
\* queue only as the admitted retransmission of a packet that a timeout or
\* fast retransmit has just re-stamped, while the earlier copy is queued.
C35_CopiesFromRetransmission ==
    [][\A f \in DOMAIN flow : \A s \in 0..(flow[f].seq - 1) :
         (/\ Cardinality(Copies(queue', f, s)) > Cardinality(Copies(queue, f, s))
          /\ Copies(queue, f, s) /= {}) =>
            /\ last'.op = "enqueue" /\ last'.result = "admitted"
            /\ last'.pkt.flow = f /\ last'.pkt.seq = s
            /\ Cardinality(Copies(queue', f, s))
                  = Cardinality(Copies(queue, f, s)) + 1
            /\ s \in Outstanding(f) /\ flow[f].unacked[s] = now'
            /\ \/ flow[f].timeout_at = now'
               \/ flow[f].state = "FAST_RECOVERY"]_vars

\* the queue holds two copies of one packet after a retransmission
C35_Witness ==
    \E f \in DOMAIN flow : \E s \in Outstanding(f) :
       /\ last.op = "enqueue" /\ last.result = "admitted"
       /\ last.pkt.flow = f /\ last.pkt.seq = s
       /\ Cardinality(Copies(queue, f, s)) >= 2

\* C36 as stated: a flow in SLOW_START has cwnd < ssthresh, also right
\* after a timeout.
C36_Original ==
    \A f \in DOMAIN flow :
       (flow[f].variant /= "dummy" /\ flow[f].state = "SLOW_START") =>
          flow[f].cwnd < flow[f].ssthresh

\* in SLOW_START cwnd <= ssthresh, with equality only after a timeout
C36_AtMostThreshold ==
    \A f \in DOMAIN flow :
       (flow[f].variant /= "dummy" /\ flow[f].state = "SLOW_START") =>
          /\ flow[f].cwnd <= flow[f].ssthresh
          /\ flow[f].cwnd = flow[f].ssthresh => flow[f].timeout_at /= None

\* a new ACK never leaves the flow in SLOW_START at the threshold; a Cubic
\* timeout always does, a Reno timeout does when the old cwnd is below 4
C36_ThresholdSteps ==
    \A f \in DOMAIN flow :
       /\ (NewAckStep(f) /\ flow'[f].state = "SLOW_START") =>
             flow'[f].cwnd < flow'[f].ssthresh
       /\ TimeoutStep(f) =>
             /\ flow'[f].state = "SLOW_START"
             /\ flow'[f].cwnd = flow'[f].ssthresh
                   <=> (IsCubic(f) \/ flow[f].cwnd < 4)

\* C36 amended: a flow in SLOW_START has cwnd <= ssthresh; cwnd = ssthresh
\* holds from a timeout (Cubic: every timeout; Reno: one taken at cwnd
\* below 4) until the next new ACK, and cwnd < ssthresh otherwise.
C36_SlowStartThreshold == []C36_AtMostThreshold /\ [][C36_ThresholdSteps]_vars

\* a Reno flow in SLOW_START with cwnd = ssthresh = 1 after a timeout
C36_Witness ==
    \E f \in DOMAIN flow :
       /\ IsReno(f) /\ last.op = "timer" /\ last.f = f
       /\ last.result = "timeout"
       /\ flow[f].state = "SLOW_START"
       /\ flow[f].cwnd = 1 /\ flow[f].ssthresh = 1

\* flow f has recorded SENDER_DONE with every packet acknowledged
Completed(f) ==
    /\ Recorded(f, "SENDER_DONE")
    /\ flow[f].last_ack = cfg.num_packets - 1

\* C37: a single flow over a loss-free link with queue capacity >= 1
\* eventually records SENDER_DONE with last_ack = num_packets - 1, whatever
\* rto, bandwidth and propagation delay, queue-full drops and timeouts
\* included.
C37_LossFreeCompletion ==
    (NoLossRun /\ cfg.queue_size >= 1) ~> Completed(1)

\* a run completed after queue-full drops and timeouts
C37_Witness ==
    /\ NoLossRun /\ Completed(1) /\ cfg.num_packets = MaxPackets
    /\ flow[1].timeout_at /= None
    /\ hist.attempts > hist.admitted

\* C38 as stated: a Reno fast-retransmit entry never leaves cwnd larger
\* than it was before the third duplicate ACK.
C38_Original ==
    [][\A f \in DOMAIN flow :
         (IsReno(f) /\ ThirdDupAckStep(f)) =>
            flow'[f].cwnd <= flow[f].cwnd]_vars

\* C38 amended: a Reno fast-retransmit entry leaves cwnd =
\* max(c // 2, 1) + 3, which is at most c exactly when c >= 5; from
\* c = 1, 2, 3 it leaves 4 and from c = 4 it leaves 5.
C38_RenoEntryWindow ==
    [][\A f \in DOMAIN flow :
         (IsReno(f) /\ ThirdDupAckStep(f)) =>
            /\ flow[f].cwnd >= 1
            /\ flow'[f].cwnd = Max(flow[f].cwnd \div 2, 1) + 3
            /\ flow'[f].cwnd <= flow[f].cwnd <=> flow[f].cwnd >= 5
            /\ flow[f].cwnd \in 1..3 => flow'[f].cwnd = 4
            /\ flow[f].cwnd = 4 => flow'[f].cwnd = 5]_vars

\* fast recovery entered from cwnd 4: the window grows to 5
C38_Witness ==
    \E f \in DOMAIN flow :
       /\ IsReno(f) /\ last.op = "deliver" /\ last.f = f
       /\ last.old.state /= "FAST_RECOVERY"
       /\ flow[f].state = "FAST_RECOVERY"
       /\ last.old.cwnd = 4 /\ flow[f].cwnd = 5
       /\ flow[f].ssthresh = 2

\* a step at which flow f enters CONGESTION_AVOID
EnterCAStep(f) ==
    flow[f].state /= "CONGESTION_AVOID" /\ flow'[f].state = "CONGESTION_AVOID"

\* C39 as stated: whenever a Reno flow enters CONGESTION_AVOID its ACK
\* counter is 0.
C39_Original ==
    [][\A f \in DOMAIN flow :
         (IsReno(f) /\ EnterCAStep(f)) => flow'[f].ca_ack_count = 0]_vars

\* C39 amended: the counter is 0 on entry from SLOW_START; fast-retransmit
\* entry, duplicate ACKs and the exit from FAST_RECOVERY leave it as it was,
\* so on entry from FAST_RECOVERY it has the value it had when the flow
\* last left CONGESTION_AVOID; it changes only on a new ACK in
\* CONGESTION_AVOID and on a timeout, which resets it.
C39_CounterCarriedOver ==
    [][\A f \in DOMAIN flow :
         IsReno(f) =>
            /\ (EnterCAStep(f) /\ flow[f].state = "SLOW_START") =>
                  (flow[f].ca_ack_count = 0 /\ flow'[f].ca_ack_count = 0)
            /\ (EnterCAStep(f) /\ flow[f].state = "FAST_RECOVERY") =>
                  flow'[f].ca_ack_count = flow[f].ca_ack_count
            /\ EnterCAStep(f) => NewAckStep(f)
            /\ flow'[f].ca_ack_count /= flow[f].ca_ack_count =>
                  \/ TimeoutStep(f) /\ flow'[f].ca_ack_count = 0
                  \/ NewAckStep(f) /\ flow[f].state = "CONGESTION_AVOID"]_vars

\* CONGESTION_AVOID entered from FAST_RECOVERY with a counter above 0 and
\* not below cwnd
C39_Witness ==
    \E f \in DOMAIN flow :
       /\ IsReno(f) /\ last.op = "deliver" /\ last.f = f
       /\ last.old.state = "FAST_RECOVERY"
       /\ flow[f].state = "CONGESTION_AVOID"
       /\ flow[f].ca_ack_count > 0
       /\ flow[f].ca_ack_count >= flow[f].cwnd

====
